---- MODULE Spec2Model ----
(***************************************************************************)
(* A model of the Cabal.Ventures Telegram bot backend: the community       *)
(* service (communities and memberships in the relational store), the      *)
(* identity table with the magic-link linking callback, and the bot's      *)
(* session-driven link flow and community wizard with the magic-link       *)
(* limiter.  Every await on the store is one step of a call, so that       *)
(* concurrent calls interleave at exactly the places the code yields.      *)
(***************************************************************************)
EXTENDS Integers, Sequences, FiniteSets, TLC

VARIABLES
    communities,        \* rows of table communities
    community_members,  \* rows of table community_members
    member_count,       \* column member_count of communities, by community id
    call,               \* per caller: the CommunityService call in flight
    faults,             \* store write failures injected so far
    users,              \* rows of table users (the identities)
    idcall,             \* per caller: the identity operation in flight
    sessions,           \* the session store: the stored session of the chat user
    handler,            \* per task: the message being handled, with its ctx.session
    limiter,            \* magic-link limiter: points consumed under each live key
    window,             \* per limiter key: how many of its windows have expired
    sent,               \* per limiter key and window: sendMagicLink invocations
    now,                \* the clock of the limiter store, in seconds
    throttle,           \* message limiter: the record of the chat user's key
    gate,               \* what rateLimiterMiddleware did with the last message
    validation,         \* the last call of validateEmail: its input and result
    chain,              \* the middleware chain for the update being handled
    banned              \* history: the memberships a moderator has banned

communityVars == <<communities, community_members, member_count, call>>
identityVars == <<users, idcall>>
botVars == <<sessions, handler, limiter, window, sent>>
throttleVars == <<now, throttle, gate>>
utilVars == <<validation, chain, banned>>

\* a step of one part of the system leaves the other parts as they are
OnlyCommunity == UNCHANGED <<identityVars, botVars, throttleVars, utilVars>>
OnlyIdentity == UNCHANGED <<communityVars, botVars, throttleVars, utilVars>>
OnlyBot == UNCHANGED <<communityVars, identityVars, faults, throttleVars, utilVars>>

vars == <<communities, community_members, member_count, call, faults, users,
          idcall, sessions, handler, limiter, window, sent, now, throttle,
          gate, validation, chain, banned>>

-----------------------------------------------------------------------------
(* Bounds of the model *)

\* how many store writes may fail with a transient error in one behaviour
MaxFaults == 1

-----------------------------------------------------------------------------
(* Inputs *)

Users == {"u1", "u2"}
NoUser == "anonymous"
Procs == {"p1", "p2"}

\* slugs are character sequences, so that length and charset are computed
SlugAbc == <<"a", "b", "c">>
SlugShort == <<"a", "b">>
SlugUpper == <<"A", "b", "c">>
ValidSlugs == {SlugAbc}
SlugInputs == {SlugAbc, SlugShort, SlugUpper}

NameOk == <<"H", "u", "b">>
NameShort == <<"H", "i">>
NameInputs == {NameOk, NameShort}

SlugChars == {"a", "b", "c", "e", "l", "n", "x", "9", "-", "_"}

-----------------------------------------------------------------------------
(* CreateCommunitySchema *)

MinSlugLen == 3
MaxSlugLen == 50
MinNameLen == 3
MaxNameLen == 100

SlugRegexTest(s) == Len(s) >= 1 /\ \A i \in 1..Len(s) : s[i] \in SlugChars

CreateCommunitySchemaOk(slug, name) ==
    /\ Len(slug) >= MinSlugLen
    /\ Len(slug) <= MaxSlugLen
    /\ SlugRegexTest(slug)
    /\ Len(name) >= MinNameLen
    /\ Len(name) <= MaxNameLen

-----------------------------------------------------------------------------
(* Error messages of CommunityService *)

ErrSlugTaken == "Community slug is already taken"
ErrCreateFailed == "Failed to create community"
ErrValidation == "ZodError"
ErrAddMember == "Failed to add member"
ErrNotFound == "Community not found"
ErrAlreadyActive == "Already a member of this community"
ErrAlreadyPending == "Join request is already pending"
ErrBanned == "You have been banned from this community"
ErrNotMember == "Not a member of this community"
ErrCreatorCannotLeave == "Community creator cannot leave. Transfer ownership first."
ErrLeaveFailed == "Failed to leave community"

AlreadyMemberErrors == {ErrAlreadyActive, ErrAlreadyPending, ErrBanned}

-----------------------------------------------------------------------------
(* The store: tables communities and community_members *)

\* select * from communities where slug = s  (the id of a row is its slug:
\* both are unique, so the generated uuid is identified with the slug)
CommunityBySlug(s) == {c \in communities : c.slug = s}
CommunityById(id) == {c \in communities : c.id = id}

\* CommunityService.getMember
getMember(cid, uid) ==
    {m \in community_members : m.community_id = cid /\ m.user_id = uid}

ActiveMemberAnyStatus(cid, uid) == getMember(cid, uid)

\* the query of CommunityService.isMember
ActiveMember(cid, uid) == {m \in getMember(cid, uid) : m.status = "active"}

\* PRIMARY KEY (community_id, user_id)
MemberInsertAllowed(cid, uid) == getMember(cid, uid) = {}

\* slug VARCHAR(50) UNIQUE NOT NULL
CommunityInsertAllowed(slug) == CommunityBySlug(slug) = {}

MemberRow(cid, uid, role, status) ==
    [community_id |-> cid, user_id |-> uid, role |-> role, status |-> status]

CommunityRow(slug, name, priv, uid) ==
    [id |-> slug, slug |-> slug, name |-> name, is_private |-> priv,
     creator_id |-> uid]

\* member_count INTEGER DEFAULT 0: the count of a community just inserted
MemberCountDefault == 0

\* what a membership row counts for in member_count
Counted(m) == IF m.status = "active" THEN 1 ELSE 0

\* the triggers on community_members that maintain communities.member_count:
\* after the insert of row m, after the delete of the rows S of a community
\* and after the update of row m to row n
MemberCountInsert(m) ==
    member_count' = [member_count EXCEPT ![m.community_id] = @ + Counted(m)]

MemberCountDelete(cid, S) ==
    member_count' = [member_count EXCEPT
        ![cid] = @ - Cardinality({m \in S : Counted(m) = 1})]

MemberCountUpdate(m, n) ==
    member_count' = [member_count EXCEPT
        ![m.community_id] = @ - Counted(m) + Counted(n)]

-----------------------------------------------------------------------------
(* CommunityService.getBySlug, isMember, getUserRole: the reads *)

\* isMember: one select with status = 'active'
isMember(cid, uid) == ActiveMember(cid, uid) # {}

\* getUserRole: getMember, then the role of an active row, else null
getUserRole(cid, uid) == {m.role : m \in ActiveMember(cid, uid)}

\* getBySlug: the select by slug, then isMember for a private community.
\* Community rows are never updated or deleted, so the row found by the first
\* select is still the row when isMember reads: the result is the one of both
\* reads made in the state of the second.  The empty set is null.
getBySlug(slug, uid) ==
    {c \in CommunityBySlug(slug) :
        ~c.is_private \/ (uid # NoUser /\ isMember(c.id, uid))}

-----------------------------------------------------------------------------
(* Calls of CommunityService that write: create, join, leave *)

IdleCall ==
    [op |-> "idle", pc |-> "done", user |-> NoUser, cid |-> <<>>,
     priv |-> FALSE, rowAtStart |-> FALSE, creatorAtStart |-> FALSE,
     faulted |-> FALSE, result |-> "", ids |-> {}, items |-> <<>>,
     hasMore |-> FALSE, offset |-> 0, limit |-> 0]

Running(p) == call[p].pc # "done"

Finish(p, result) ==
    call' = [call EXCEPT ![p].pc = "done", ![p].result = result]

InitCommunity ==
    /\ communities = {}
    /\ community_members = {}
    /\ member_count = [id \in {} |-> 0]
    /\ call = [p \in Procs |-> IdleCall]
    /\ faults = 0

-----------------------------------------------------------------------------
(* CommunityService.create *)

\* validation, then the select that checks whether the slug is taken
CreateCall(p, uid, slug, name, priv) ==
    call' = [call EXCEPT ![p] =
          [IdleCall EXCEPT
             !.op = "create", !.user = uid, !.cid = slug, !.priv = priv,
             !.pc = IF CreateCommunitySchemaOk(slug, name)
                       /\ CommunityBySlug(slug) = {}
                    THEN "insert" ELSE "done",
             !.result = IF ~CreateCommunitySchemaOk(slug, name)
                        THEN ErrValidation
                        ELSE IF CommunityBySlug(slug) # {}
                             THEN ErrSlugTaken ELSE ""]]

\* create called directly by a client of the service
CreateStart(p, uid, slug, name, priv) ==
    /\ ~Running(p)
    /\ CreateCall(p, uid, slug, name, priv)
    /\ UNCHANGED <<communities, community_members, member_count, faults>>
    /\ OnlyCommunity

\* insert into communities; the unique slug constraint rejects a duplicate
CreateInsert(p) ==
    /\ call[p].op = "create" /\ call[p].pc = "insert"
    /\ IF CommunityInsertAllowed(call[p].cid)
       THEN /\ communities' = communities \cup
                  {CommunityRow(call[p].cid, NameOk, call[p].priv,
                                call[p].user)}
            /\ member_count' =
                  [id \in DOMAIN member_count \cup {call[p].cid} |->
                      IF id \in DOMAIN member_count THEN member_count[id]
                      ELSE MemberCountDefault]
            /\ call' = [call EXCEPT ![p].pc = "addMember"]
       ELSE /\ Finish(p, ErrCreateFailed)
            /\ UNCHANGED <<communities, member_count>>
    /\ UNCHANGED <<community_members, faults>>
    /\ OnlyCommunity

\* addMember(community.id, userId, 'admin', 'active')
CreateAddMember(p) ==
    /\ call[p].op = "create" /\ call[p].pc = "addMember"
    /\ IF MemberInsertAllowed(call[p].cid, call[p].user)
       THEN /\ community_members' = community_members \cup
                  {MemberRow(call[p].cid, call[p].user, "admin", "active")}
            /\ MemberCountInsert(
                  MemberRow(call[p].cid, call[p].user, "admin", "active"))
            /\ Finish(p, "ok")
       ELSE /\ Finish(p, ErrAddMember)
            /\ UNCHANGED <<community_members, member_count>>
    /\ UNCHANGED <<communities, faults>>
    /\ OnlyCommunity

-----------------------------------------------------------------------------
(* CommunityService.join *)

\* getByIdInternal(communityId)
JoinStart(p, cid, uid) ==
    /\ ~Running(p)
    /\ call' = [call EXCEPT ![p] =
          [IdleCall EXCEPT
             !.op = "join", !.user = uid, !.cid = cid,
             !.priv = \E c \in CommunityById(cid) : c.is_private,
             !.rowAtStart = getMember(cid, uid) # {},
             !.pc = IF CommunityById(cid) = {} THEN "done" ELSE "getMember",
             !.result = IF CommunityById(cid) = {} THEN ErrNotFound ELSE ""]]
    /\ UNCHANGED <<communities, community_members, member_count, faults>>
    /\ OnlyCommunity

JoinExistingErrorActive(m) == ErrAlreadyActive

JoinExistingError(m) ==
    IF m.status = "active" THEN ErrAlreadyActive
    ELSE IF m.status = "pending" THEN ErrAlreadyPending
    ELSE ErrBanned

\* getMember(communityId, userId) and the three status checks
JoinGetMember(p) ==
    /\ call[p].op = "join" /\ call[p].pc = "getMember"
    /\ LET existing == getMember(call[p].cid, call[p].user) IN
       IF existing # {}
       THEN Finish(p, JoinExistingError(CHOOSE m \in existing : TRUE))
       ELSE call' = [call EXCEPT ![p].pc = "addMember"]
    /\ UNCHANGED <<communities, community_members, member_count, faults>>
    /\ OnlyCommunity

JoinStatusActive(priv) == "active"

\* const status = community.is_private ? 'pending' : 'active'
JoinStatus(priv) == IF priv THEN "pending" ELSE "active"

\* addMember(communityId, userId, 'member', status)
JoinAddMember(p) ==
    /\ call[p].op = "join" /\ call[p].pc = "addMember"
    /\ LET status == JoinStatus(call[p].priv) IN
       IF MemberInsertAllowed(call[p].cid, call[p].user)
       THEN /\ community_members' = community_members \cup
                  {MemberRow(call[p].cid, call[p].user, "member", status)}
            /\ MemberCountInsert(
                  MemberRow(call[p].cid, call[p].user, "member", status))
            /\ Finish(p, IF status = "active" THEN "joined" ELSE "pending")
       ELSE /\ Finish(p, ErrAddMember)
            /\ UNCHANGED <<community_members, member_count>>
    /\ UNCHANGED <<communities, faults>>
    /\ OnlyCommunity

-----------------------------------------------------------------------------
(* CommunityService.leave *)

\* getMember(communityId, userId)
LeaveStart(p, cid, uid) ==
    /\ ~Running(p)
    /\ call' = [call EXCEPT ![p] =
          [IdleCall EXCEPT
             !.op = "leave", !.user = uid, !.cid = cid,
             !.creatorAtStart =
                 \E c \in CommunityById(cid) : c.creator_id = uid,
             !.pc = IF getMember(cid, uid) = {} THEN "done"
                    ELSE "getCommunity",
             !.result = IF getMember(cid, uid) = {} THEN ErrNotMember
                        ELSE ""]]
    /\ UNCHANGED <<communities, community_members, member_count, faults>>
    /\ OnlyCommunity

\* getByIdInternal(communityId) and the creator check
LeaveGetCommunity(p) ==
    /\ call[p].op = "leave" /\ call[p].pc = "getCommunity"
    /\ IF \E c \in CommunityById(call[p].cid) : c.creator_id = call[p].user
       THEN Finish(p, ErrCreatorCannotLeave)
       ELSE call' = [call EXCEPT ![p].pc = "delete"]
    /\ UNCHANGED <<communities, community_members, member_count, faults>>
    /\ OnlyCommunity

\* delete from community_members where community_id = .. and user_id = ..
LeaveDelete(p) ==
    /\ call[p].op = "leave" /\ call[p].pc = "delete"
    /\ community_members' =
          community_members \ getMember(call[p].cid, call[p].user)
    /\ MemberCountDelete(call[p].cid, getMember(call[p].cid, call[p].user))
    /\ Finish(p, "ok")
    /\ UNCHANGED <<communities, faults>>
    /\ OnlyCommunity

-----------------------------------------------------------------------------
(* The environment of the service *)

\* a store write that fails with a transient error: the insert or delete the
\* call is about to make returns an error and writes nothing
WriteFaultError(c) ==
    IF c.op = "create" /\ c.pc = "insert" THEN ErrCreateFailed
    ELSE IF c.pc = "addMember" THEN ErrAddMember
    ELSE ErrLeaveFailed

StoreWriteFault(p) ==
    /\ faults < MaxFaults
    /\ call[p].pc \in {"insert", "addMember", "delete"}
    /\ faults' = faults + 1
    /\ call' = [call EXCEPT ![p].pc = "done", ![p].faulted = TRUE,
                            ![p].result = WriteFaultError(call[p])]
    /\ UNCHANGED <<communities, community_members, member_count>>
    /\ OnlyCommunity

\* approval or ban of a membership by a community admin (no service method):
\* the status of a non-creator row changes
ModerateRow(cid, uid, status) ==
    /\ \E m \in getMember(cid, uid) :
          /\ m.status # status
          /\ ~(\E c \in CommunityById(cid) : c.creator_id = uid)
          /\ community_members' =
                (community_members \ {m}) \cup {[m EXCEPT !.status = status]}
          /\ MemberCountUpdate(m, [m EXCEPT !.status = status])
    /\ UNCHANGED <<communities, call, faults>>

Moderate(cid, uid, status) ==
    /\ ModerateRow(cid, uid, status)
    /\ OnlyCommunity

NextCommunity ==
    \/ \E p \in Procs, uid \in Users, slug \in SlugInputs,
          name \in NameInputs, priv \in BOOLEAN :
          CreateStart(p, uid, slug, name, priv)
    \/ \E p \in Procs : CreateInsert(p)
    \/ \E p \in Procs : CreateAddMember(p)
    \/ \E p \in Procs, cid \in ValidSlugs, uid \in Users : JoinStart(p, cid, uid)
    \/ \E p \in Procs : JoinGetMember(p)
    \/ \E p \in Procs : JoinAddMember(p)
    \/ \E p \in Procs, cid \in ValidSlugs, uid \in Users : LeaveStart(p, cid, uid)
    \/ \E p \in Procs : LeaveGetCommunity(p)
    \/ \E p \in Procs : LeaveDelete(p)
    \/ \E p \in Procs : StoreWriteFault(p)
    \/ \E cid \in ValidSlugs, uid \in Users, status \in {"active", "banned"} :
          Moderate(cid, uid, status)


\* the calls that write memberships, for communities made with valid data
NextMembership ==
    \/ \E p \in Procs, uid \in Users, priv \in BOOLEAN :
          CreateStart(p, uid, SlugAbc, NameOk, priv)
    \/ \E p \in Procs : CreateInsert(p)
    \/ \E p \in Procs : CreateAddMember(p)
    \/ \E p \in Procs, cid \in ValidSlugs, uid \in Users : JoinStart(p, cid, uid)
    \/ \E p \in Procs : JoinGetMember(p)
    \/ \E p \in Procs : JoinAddMember(p)
    \/ \E p \in Procs, cid \in ValidSlugs, uid \in Users : LeaveStart(p, cid, uid)
    \/ \E p \in Procs : LeaveGetCommunity(p)
    \/ \E p \in Procs : LeaveDelete(p)
    \/ \E p \in Procs : StoreWriteFault(p)
    \/ \E cid \in ValidSlugs, uid \in Users, status \in {"active", "banned"} :
          Moderate(cid, uid, status)

-----------------------------------------------------------------------------
(* Claims about the community service, checked under SpecCommunity and
   SpecMembership *)

JoinSucceeded(r) == r \in {"joined", "pending"}

\* two finished join calls for the same pair that both began when the pair
\* had no membership row, in a behaviour without any store failure
ConcurrentJoins(p, q) ==
    /\ p # q
    /\ call[p].op = "join" /\ call[q].op = "join"
    /\ call[p].pc = "done" /\ call[q].pc = "done"
    /\ call[p].cid = call[q].cid /\ call[p].user = call[q].user
    /\ call[p].result # ErrNotFound /\ call[q].result # ErrNotFound
    /\ ~call[p].rowAtStart /\ ~call[q].rowAtStart
    /\ faults = 0

\* C1: two concurrent join(c, u) calls for a pair without a membership row
\* end with exactly one row for the pair, one call having succeeded and the
\* other having failed with one of the AlreadyMember errors.
C1_ConcurrentJoinOneAlreadyMember ==
    \A p, q \in Procs :
        ConcurrentJoins(p, q) =>
            /\ Cardinality(getMember(call[p].cid, call[p].user)) = 1
            /\ \/ JoinSucceeded(call[p].result)
                  /\ call[q].result \in AlreadyMemberErrors
               \/ JoinSucceeded(call[q].result)
                  /\ call[p].result \in AlreadyMemberErrors

\* C2: every community row has an active admin membership row of its creator.
C2_CreatorIsActiveAdmin ==
    \A c \in communities :
        \E m \in getMember(c.id, c.creator_id) :
            m.role = "admin" /\ m.status = "active"

\* C4: a private community is not found by getBySlug for an absent requester
\* or one without an active membership row, and is returned to its creator
\* and to every active member.
C4_PrivateVisibility ==
    \A c \in communities : \A r \in Users \cup {NoUser} :
        c.is_private =>
            /\ (r = NoUser \/ ActiveMember(c.id, r) = {})
                  => getBySlug(c.slug, r) = {}
            /\ (r # NoUser /\ (r = c.creator_id \/ ActiveMember(c.id, r) # {}))
                  => getBySlug(c.slug, r) = {c}

\* a step of a leave call made by the creator of the community it names
LeaveStepOfCreator(p) ==
    /\ call'[p] # call[p]
    /\ call'[p].op = "leave"
    /\ call'[p].creatorAtStart

\* C5: leave(c, k) by the creator k of c fails with CreatorCannotLeave and
\* leaves the membership table unchanged.
C5_CreatorCannotLeave ==
    [][\A p \in Procs :
          LeaveStepOfCreator(p) =>
              /\ community_members' = community_members
              /\ call'[p].pc = "done" =>
                    call'[p].result = ErrCreatorCannotLeave]_vars

\* a step of a create call with valid data that reads or writes table
\* communities (its slug check or its insert) while a community has the slug
CreateStepOnTakenSlug(p) ==
    /\ call'[p] # call[p]
    /\ call'[p].op = "create"
    /\ call[p].pc # "addMember"
    /\ ~call'[p].faulted
    /\ call'[p].result # ErrValidation
    /\ CommunityBySlug(call'[p].cid) # {}

\* C11: create with a slug that a community already uses fails with
\* 'Community slug is already taken' and adds no community row and no
\* membership row, also when two create calls with the same slug interleave
\* (one community results, the loser fails with SlugTaken).
C11_TakenSlugRejected ==
    /\ [](\A slug \in ValidSlugs : Cardinality(CommunityBySlug(slug)) <= 1)
    /\ [][\A p \in Procs :
             CreateStepOnTakenSlug(p) =>
                 /\ call'[p].pc = "done"
                 /\ call'[p].result = ErrSlugTaken
                 /\ communities' = communities
                 /\ community_members' = community_members]_vars

\* the step in which the join call of task p succeeds
JoinSuccessStep(p) ==
    /\ call[p].op = "join" /\ call[p].pc = "addMember"
    /\ call'[p].pc = "done"
    /\ JoinSucceeded(call'[p].result)

\* C14: a successful join(c, u) creates exactly one membership row for (c, u),
\* with role member; its status is active and the result 'joined' when c is
\* public, and its status is pending and the result 'pending' when c is
\* private; after a pending join isMember(c, u) is false and getBySlug of the
\* private community with no requester finds nothing.
C14_JoinCreatesOneRow ==
    [][\A p \in Procs : \A cid \in ValidSlugs : \A uid \in Users :
          (JoinSuccessStep(p) /\ call[p].cid = cid /\ call[p].user = uid) =>
              LET priv == \E c \in CommunityById(cid) : c.is_private
                  status == IF priv THEN "pending" ELSE "active"
              IN  /\ getMember(cid, uid) = {}
                  /\ getMember(cid, uid)' =
                        {MemberRow(cid, uid, "member", status)}
                  /\ community_members' \ getMember(cid, uid)' =
                        community_members
                  /\ call'[p].result = IF priv THEN "pending" ELSE "joined"
                  /\ priv => /\ ~isMember(cid, uid)'
                             /\ getBySlug(cid, NoUser)' = {}]_vars

\* a join of a private community has ended with 'pending' and the pending
\* row of the pair
C14_PendingJoinDone ==
    \E p \in Procs :
        /\ call[p].op = "join" /\ call[p].pc = "done"
        /\ call[p].result = "pending"
        /\ getMember(call[p].cid, call[p].user) =
              {MemberRow(call[p].cid, call[p].user, "member", "pending")}
        /\ \E c \in CommunityById(call[p].cid) : c.is_private

\* the step of a join call that reads the membership row of its pair and
\* finds one
JoinFindsRow(p) ==
    /\ call[p].op = "join" /\ call[p].pc = "getMember"
    /\ call'[p] # call[p]
    /\ getMember(call[p].cid, call[p].user) # {}

-----------------------------------------------------------------------------
(* CommunityService.list *)

\* options.search: none, or a text looked for in the name
NoSearch == <<>>
SearchInputs == {NoSearch, <<"u", "B">>, <<"z">>}

\* options.offset and options.limit
OffsetInputs == {0, 1}
LimitInputs == {1, 10}

\* ilike compares without regard to case
LowerChar(ch) ==
    IF ch = "A" THEN "a" ELSE IF ch = "B" THEN "b"
    ELSE IF ch = "H" THEN "h" ELSE ch

LowerText(text) == [i \in 1..Len(text) |-> LowerChar(text[i])]

\* name.ilike.%search%
ilike(text, search) ==
    \E i \in 1..Len(text) :
        /\ i + Len(search) - 1 <= Len(text)
        /\ LowerText(SubSeq(text, i, i + Len(search) - 1)) = LowerText(search)

\* getUserCommunityIds: the communities of the active rows of the user
getUserCommunityIdsAnyStatus(uid) ==
    {m.community_id : m \in {x \in community_members : x.user_id = uid}}

getUserCommunityIds(uid) ==
    {m.community_id :
        m \in {x \in community_members :
                  x.user_id = uid /\ x.status = "active"}}

\* the rows the query of list selects: is_private = false for an absent
\* requester, else is_private = false or id in the ids read before; and,
\* with a search text, the rows whose name contains it
ListFilter(uid, ids, search) ==
    {c \in communities :
        /\ IF uid = NoUser THEN ~c.is_private
           ELSE ~c.is_private \/ c.id \in ids
        /\ search = NoSearch \/ ilike(c.name, search)}

\* the rows in the order of the sort (the sort keys are not columns of the
\* model: some order of the rows)
ListOrder(S) ==
    CHOOSE seq \in [1..Cardinality(S) -> S] :
        \A i, j \in 1..Cardinality(S) : i # j => seq[i] # seq[j]

\* query.range(offset, offset + limit): the rows at the 0-based positions
\* offset to offset + limit, both included
ListRange(seq, offset, limit) ==
    SubSeq(seq, offset + 1,
           IF offset + limit + 1 < Len(seq) THEN offset + limit + 1
           ELSE Len(seq))

\* const hasMore = count ? (offset + limit) < count : false, count being the
\* number of rows the query selects before its range
ListHasMore(count, offset, limit) ==
    IF count # 0 THEN offset + limit < count ELSE FALSE

\* list: for a requester, getUserCommunityIds is awaited while the query is
\* built
ListStart(p, uid) ==
    /\ ~Running(p)
    /\ call' = [call EXCEPT ![p] =
          [IdleCall EXCEPT
             !.op = "list", !.user = uid, !.pc = "query",
             !.ids = IF uid = NoUser THEN {}
                     ELSE getUserCommunityIds(uid)]]
    /\ UNCHANGED <<communities, community_members, member_count, faults>>
    /\ OnlyCommunity

\* list: the query is awaited and its rows are returned
ListQuery(p, search, offset, limit) ==
    /\ call[p].op = "list" /\ call[p].pc = "query"
    /\ call' = [call EXCEPT
          ![p].pc = "done", ![p].result = "ok",
          ![p].offset = offset, ![p].limit = limit,
          ![p].items =
              ListRange(ListOrder(ListFilter(call[p].user, call[p].ids,
                                             search)),
                        offset, limit),
          ![p].hasMore =
              ListHasMore(Cardinality(ListFilter(call[p].user, call[p].ids,
                                                 search)),
                          offset, limit)]
    /\ UNCHANGED <<communities, community_members, member_count, faults>>
    /\ OnlyCommunity

NextList ==
    \/ \E p \in Procs, uid \in Users, priv \in BOOLEAN :
          CreateStart(p, uid, SlugAbc, NameOk, priv)
    \/ \E p \in Procs : CreateInsert(p)
    \/ \E p \in Procs : CreateAddMember(p)
    \/ \E p \in Procs, cid \in ValidSlugs, uid \in Users : JoinStart(p, cid, uid)
    \/ \E p \in Procs : JoinGetMember(p)
    \/ \E p \in Procs : JoinAddMember(p)
    \/ \E p \in Procs, cid \in ValidSlugs, uid \in Users : LeaveStart(p, cid, uid)
    \/ \E p \in Procs : LeaveGetCommunity(p)
    \/ \E p \in Procs : LeaveDelete(p)
    \/ \E cid \in ValidSlugs, uid \in Users, status \in {"active", "banned"} :
          Moderate(cid, uid, status)
    \/ \E p \in Procs, uid \in Users \cup {NoUser} : ListStart(p, uid)
    \/ \E p \in Procs, search \in SearchInputs, offset \in OffsetInputs,
          limit \in LimitInputs : ListQuery(p, search, offset, limit)

-----------------------------------------------------------------------------
(* Claims about list, checked under SpecList *)

\* the step in which list reads the memberships of its requester, and the
\* step in which it returns
ListReads(p) ==
    /\ call[p].pc = "done" /\ call'[p].op = "list" /\ call'[p].pc = "query"

ListReturns(p) ==
    /\ call[p].op = "list" /\ call[p].pc = "query" /\ call'[p].pc = "done"

\* C17: for every requester (possibly absent) and every filter, list returns
\* only public communities and private communities in which the requester
\* has an active membership when list reads the memberships; a private
\* community is never returned to an absent requester or to one whose row is
\* missing, pending or banned.
C17_ListShowsOnlyVisible ==
    /\ [][\A p \in Procs :
             ListReads(p) =>
                 call'[p].ids =
                     {m.community_id :
                         m \in {x \in community_members :
                                   /\ call'[p].user # NoUser
                                   /\ x.user_id = call'[p].user
                                   /\ x.status = "active"}}]_vars
    /\ [][\A p \in Procs :
             ListReturns(p) =>
                 \A i \in 1..Len(call'[p].items) :
                     LET c == call'[p].items[i] IN
                     /\ c \in communities
                     /\ c.is_private =>
                           /\ call[p].user # NoUser
                           /\ c.id \in call[p].ids]_vars

\* list has returned a private community to an active member other than its
\* creator, and nothing to a requester whose request is pending
C17_PrivateListedForMember ==
    \E p, q \in Procs :
        /\ call[p].op = "list" /\ call[p].pc = "done"
        /\ \E i \in 1..Len(call[p].items) :
              /\ call[p].items[i].is_private
              /\ call[p].items[i].creator_id # call[p].user
        /\ call[q].op = "list" /\ call[q].pc = "done"
        /\ call[q].user # NoUser /\ call[q].user # call[p].user
        /\ call[q].items = <<>>

-----------------------------------------------------------------------------
(* The identity table and the operations on it *)

TelegramIds == {101, 102}
NoTelegram == 0
NoEmail == "none"

\* the accounts of the authentication provider: a magic link for an email
\* yields an access token of the account with that email
AuthIds == {"s1", "s2"}
AuthEmail(a) == IF a = "s1" THEN "e1@x.io" ELSE "e2@x.io"
Emails == {AuthEmail(a) : a \in AuthIds}
InvalidToken == "invalid"
MissingToken == "missing"
Tokens == AuthIds \cup {InvalidToken, MissingToken}

\* id UUID PRIMARY KEY DEFAULT uuid_generate_v4(): the id generated for the
\* row that getOrCreateUser inserts for a chat id (one such row per chat id
\* at most, and never the id of an authentication account)
GeneratedId(t) == IF t = 101 THEN "g101" ELSE "g102"

UserRow(id, t, email, role) ==
    [id |-> id, telegram_id |-> t, email |-> email, role |-> role]

UserById(id) == {u \in users : u.id = id}

\* select * from users where telegram_id = t
UserByTelegramId(t) == {u \in users : u.telegram_id = t}

\* telegram_id BIGINT UNIQUE NOT NULL, email VARCHAR(320) UNIQUE, id PRIMARY
\* KEY: may row r be written, the rows in others staying as they are
UserWriteAllowed(r, others) ==
    \A u \in others :
        /\ u.id # r.id
        /\ u.telegram_id # r.telegram_id
        /\ (r.email # NoEmail => u.email # r.email)

ErrMissingToken == "Missing Access Token"
ErrMissingTelegram == "Missing Telegram Data"
ErrInvalidLink == "Invalid or Expired Link"
ErrAlreadyLinked ==
    "This Telegram account is already linked to another email address"
ErrLinkFailed == "Failed to link Telegram account"

\* getLinkStatus(telegramId) on the rows of table users: isLinked and email
\* of the row of the chat id
LinkStatusIn(rows, t) ==
    LET found == {u \in rows : u.telegram_id = t} IN
    IF found = {} THEN [isLinked |-> FALSE, email |-> NoEmail]
    ELSE LET u == CHOOSE x \in found : TRUE IN
         [isLinked |-> u.email # NoEmail, email |-> u.email]

getLinkStatusNever(t) == [isLinked |-> FALSE, email |-> NoEmail]

getLinkStatus(t) == LinkStatusIn(users, t)

\* the chat id t or the email e is bound to another identity: t to a row
\* linked to another email, or e to a row of another chat id
BoundElsewhere(t, e) ==
    \E u \in users :
        \/ u.telegram_id = t /\ u.email # NoEmail /\ u.email # e
        \/ u.email = e /\ u.telegram_id # t

IdleIdCall ==
    [op |-> "idle", pc |-> "done", auth |-> MissingToken, tg |-> NoTelegram,
     email |-> NoEmail, boundElsewhere |-> FALSE, lazyAtStart |-> FALSE,
     faulted |-> FALSE, result |-> ""]

IdRunning(p) == idcall[p].pc # "done"

InitIdentity ==
    /\ users = {}
    /\ idcall = [p \in Procs |-> IdleIdCall]

\* the row of a chat id that getOrCreateUser made and nothing has linked
LazyRow(t) == {u \in UserByTelegramId(t) : u.email = NoEmail}

\* GET /verify up to the first select of linkTelegramUser: the parameter
\* checks, the token check, and the check of an existing row of the chat id
VerifyResultAtStart(token, t) ==
    IF token = MissingToken THEN ErrMissingToken
    ELSE IF t = NoTelegram THEN ErrMissingTelegram
    ELSE IF token = InvalidToken THEN ErrInvalidLink
    ELSE IF \E u \in UserByTelegramId(t) : u.id # token THEN ErrAlreadyLinked
    ELSE ""

VerifyStart(p, token, t) ==
    /\ ~IdRunning(p)
    /\ LET res == VerifyResultAtStart(token, t)
           e == IF token \in AuthIds THEN AuthEmail(token) ELSE NoEmail IN
       idcall' = [idcall EXCEPT ![p] =
          [IdleIdCall EXCEPT
             !.op = "link", !.auth = token, !.tg = t, !.email = e,
             !.boundElsewhere = BoundElsewhere(t, e),
             !.lazyAtStart = LazyRow(t) # {},
             !.pc = IF res = "" THEN "upsert" ELSE "done",
             !.result = res]]
    /\ UNCHANGED <<users, faults>>
    /\ OnlyIdentity

\* upsert({id, telegram_id, email, ..}, {onConflict: 'id'}): the row with
\* this id is updated, or inserted when there is none; the role of an
\* existing row is kept, a new row gets the column default
UpsertRow(id, t, e) ==
    UserRow(id, t, e,
            IF UserById(id) = {} THEN "user"
            ELSE (CHOOSE u \in UserById(id) : TRUE).role)

LinkUpsert(p) ==
    /\ idcall[p].op = "link" /\ idcall[p].pc = "upsert"
    /\ LET c == idcall[p]
           row == UpsertRow(c.auth, c.tg, c.email)
           others == users \ UserById(c.auth) IN
       IF UserWriteAllowed(row, others)
       THEN /\ users' = others \cup {row}
            /\ idcall' = [idcall EXCEPT ![p].pc = "done", ![p].result = "ok"]
       ELSE /\ idcall' = [idcall EXCEPT ![p].pc = "done",
                                        ![p].result = ErrAlreadyLinked]
            /\ UNCHANGED users
    /\ UNCHANGED faults
    /\ OnlyIdentity

\* the upsert fails with an error other than a unique violation
LinkUpsertFault(p) ==
    /\ faults < MaxFaults
    /\ idcall[p].op = "link" /\ idcall[p].pc = "upsert"
    /\ faults' = faults + 1
    /\ idcall' = [idcall EXCEPT ![p].pc = "done", ![p].faulted = TRUE,
                                ![p].result = ErrLinkFailed]
    /\ UNCHANGED users
    /\ OnlyIdentity

\* startCommand: getOrCreateUser, the select by telegram_id (an existing row
\* only has its display names updated)
GetOrCreateCall(p, t) ==
    idcall' = [idcall EXCEPT ![p] =
          [IdleIdCall EXCEPT
             !.op = "getOrCreateUser", !.tg = t,
             !.pc = IF UserByTelegramId(t) = {} THEN "insert" ELSE "done",
             !.result = IF UserByTelegramId(t) = {} THEN "" ELSE "ok"]]

\* getOrCreateUser called for a chat id
GetOrCreateStart(p, t) ==
    /\ ~IdRunning(p)
    /\ GetOrCreateCall(p, t)
    /\ UNCHANGED <<users, faults>>
    /\ OnlyIdentity

\* getOrCreateUser: the insert of a new, unlinked row
GetOrCreateInsert(p) ==
    /\ idcall[p].op = "getOrCreateUser" /\ idcall[p].pc = "insert"
    /\ LET row == UserRow(GeneratedId(idcall[p].tg), idcall[p].tg,
                          NoEmail, "user") IN
       IF UserWriteAllowed(row, users)
       THEN /\ users' = users \cup {row}
            /\ idcall' = [idcall EXCEPT ![p].pc = "done", ![p].result = "ok"]
       ELSE /\ idcall' = [idcall EXCEPT ![p].pc = "done",
                                        ![p].result = "null"]
            /\ UNCHANGED users
    /\ UNCHANGED faults
    /\ OnlyIdentity

NextIdentity ==
    \/ \E p \in Procs, token \in Tokens, t \in TelegramIds \cup {NoTelegram} :
          VerifyStart(p, token, t)
    \/ \E p \in Procs : LinkUpsert(p)
    \/ \E p \in Procs : LinkUpsertFault(p)
    \/ \E p \in Procs, t \in TelegramIds : GetOrCreateStart(p, t)
    \/ \E p \in Procs : GetOrCreateInsert(p)


-----------------------------------------------------------------------------
(* Claims about the identity table, checked under SpecIdentity *)

\* a step that ends a verification callback which carried a valid token and
\* a chat id and met no store failure
FinishesLink(p) ==
    /\ idcall'[p] # idcall[p]
    /\ idcall'[p].op = "link"
    /\ idcall'[p].pc = "done"
    /\ idcall'[p].auth \in AuthIds
    /\ idcall'[p].tg \in TelegramIds
    /\ ~idcall'[p].faulted

\* getLinkStatus(t), asked in the state a step leads to, reports email e
LinkedAfter(t, e) ==
    LinkStatusIn(users', t) = [isLinked |-> TRUE, email |-> e]

\* C6: a verification callback with a valid token for email E and chat id T,
\* neither bound to a different identity, links the identity, and
\* getLinkStatus(T) then reports isLinked with email E.  (The callback reads
\* no session, so the session state of the user plays no part.)
C6_CallbackLinks ==
    [][\A p \in Procs :
          (FinishesLink(p)
             /\ ~idcall'[p].boundElsewhere
             /\ ~BoundElsewhere(idcall'[p].tg, idcall'[p].email))
          => /\ idcall'[p].result = "ok"
             /\ LinkedAfter(idcall'[p].tg, idcall'[p].email)]_vars

UniqueIdentities ==
    \A u, v \in users :
        u # v => /\ u.telegram_id # v.telegram_id
                 /\ (u.email # NoEmail => u.email # v.email)

\* a step of a linkTelegramUser call made while its chat id or its email is
\* bound to a different identity
ConflictingLinkStep(p) ==
    /\ idcall'[p] # idcall[p]
    /\ idcall'[p].op = "link"
    /\ idcall'[p].auth \in AuthIds
    /\ idcall'[p].tg \in TelegramIds
    /\ BoundElsewhere(idcall'[p].tg, idcall'[p].email)

\* C7: no two identity rows share a chat id or an email, and a
\* linkTelegramUser call whose chat id or email is bound to a different
\* identity fails with the conflict error and changes no identity row.
C7_UniqueAndConflictRejected ==
    /\ []UniqueIdentities
    /\ [][\A p \in Procs :
             ConflictingLinkStep(p) =>
                 /\ users' = users
                 /\ (idcall'[p].pc = "done" /\ ~idcall'[p].faulted)
                       => idcall'[p].result = ErrAlreadyLinked]_vars

\* C8: an identity created unlinked for chat id T by getOrCreateUser can be
\* linked later: a verification callback for T with an email bound to no
\* identity succeeds and the identity of T then has that email.
C8_LazyIdentityCanBeLinked ==
    [][\A p \in Procs :
          (FinishesLink(p)
             /\ idcall'[p].lazyAtStart
             /\ ~idcall'[p].boundElsewhere
             /\ \A u \in users : u.email # idcall'[p].email)
          => /\ idcall'[p].result = "ok"
             /\ LinkedAfter(idcall'[p].tg, idcall'[p].email)]_vars

-----------------------------------------------------------------------------
(* The bot: sessions, the message pipeline, the magic-link limiter *)

\* the chat user whose messages the bot handles (ctx.from.id)
BotUser == CHOOSE t \in TelegramIds : \A u \in TelegramIds : t <= u

\* how many windows of one limiter key may expire in one behaviour
MaxWindows == 1

\* points: 3 of magicLinkRateLimiter
MagicLinkPoints == 3

\* texts a user sends while the bot awaits an email address
EmailTexts == {"e1@x.io", " E1@X.io ", "not an email", "/cancel"}

\* text.startsWith('/')
StartsWithSlash(text) == text = "/cancel"

\* email.trim().toLowerCase()
TrimLower(text) == IF text = " E1@X.io " THEN "e1@x.io" ELSE text

\* validator.isEmail and the further pattern checks of validateEmail
isEmailAny(text) == TRUE

isEmail(text) == text \in Emails

validateEmail(text) ==
    LET trimmedEmail == TrimLower(text) IN
    [isValid |-> isEmail(trimmedEmail),
     normalizedEmail |-> IF isEmail(trimmedEmail) THEN trimmedEmail
                         ELSE NoEmail]

NormalizedEmails ==
    {validateEmail(x).normalizedEmail : x \in EmailTexts} \ {NoEmail}

\* const key = `${userId}_${email}`
LimiterKey(t, e) == <<t, e>>
LimiterKeys == {LimiterKey(BotUser, e) : e \in NormalizedEmails}

NoStep == "undefined"
NoFlow ==
    [step |-> 0, slug |-> <<>>, name |-> <<>>, description |-> "unset",
     is_private |-> "unset"]

\* linkingExpiry is a time of the clock, in seconds; unset is NoExpiry
NoExpiry == 0

\* new Date(Date.now() + 24 * 60 * 60 * 1000)
LinkValidity == 86400

\* SessionStore.ttl: a stored session is dropped this long after its last set
SessionTtl == 86400

\* SessionStore.get for a user without a stored session: the default session.
\* The fields are step, linkingEmail, linkingExpiry, communityCreation, the
\* cached user row (a set of at most one row) and lastActivity, the time of
\* the last set; data is not read by any handler.
DefaultSession ==
    [step |-> NoStep, linkingEmail |-> NoEmail, linkingExpiry |-> NoExpiry,
     communityCreation |-> NoFlow, user |-> {}, lastActivity |-> 0]

\* SessionStore.get: the session last set, unless the store has dropped it,
\* ttl after that set (redis.setex), and then the default session
StoredSession ==
    IF now >= sessions.lastActivity + SessionTtl THEN DefaultSession
    ELSE sessions

IdleHandler ==
    [kind |-> "none", pc |-> "done", session |-> DefaultSession,
     email |-> NoEmail, slugText |-> <<>>, window |-> 0, rejected |-> FALSE,
     fault |-> FALSE, thrown |-> FALSE, sendResult |-> "none", text |-> "",
     reply |-> "", detail |-> "", allowedRoles |-> {}]

InitBot ==
    /\ sessions = DefaultSession
    /\ handler = [p \in Procs |-> IdleHandler]
    /\ limiter = [k \in LimiterKeys |-> 0]
    /\ window = [k \in LimiterKeys |-> 0]
    /\ sent = [k \in LimiterKeys |-> [w \in 0..MaxWindows |-> 0]]

At(p, kind, pc) == handler[p].kind = kind /\ handler[p].pc = pc

\* the handler of task p goes on at pc with ctx.session s
Goto(p, pc, s) ==
    handler' = [handler EXCEPT ![p].pc = pc, ![p].session = s]

\* the same after ctx.reply(msg), the last reply of the handler so far
Reply(p, pc, s, msg) ==
    handler' = [handler EXCEPT ![p].pc = pc, ![p].session = s,
                               ![p].reply = msg]

\* sessionMiddleware, before next(): ctx.session = await sessionStore.get(id)
sessionMiddleware(p, kind) ==
    /\ handler[p].pc = "done"
    /\ handler' = [handler EXCEPT ![p] =
          [IdleHandler EXCEPT !.kind = kind, !.pc = "auth",
                              !.session = StoredSession]]
    /\ UNCHANGED <<sessions, limiter, window, sent>>
    /\ OnlyBot

\* authMiddleware: the user row is read unless the session has one cached
authMiddleware(p) ==
    /\ handler[p].pc = "auth"
    /\ LET s == handler[p].session IN
       Goto(p, "handler",
            IF s.user # {} THEN s
            ELSE [s EXCEPT !.user = UserByTelegramId(BotUser)])
    /\ UNCHANGED <<sessions, limiter, window, sent>>
    /\ OnlyBot

\* a save that writes the step only
sessionSaveStepOnly(p) ==
    /\ handler[p].pc = "save"
    /\ sessions' = [sessions EXCEPT !.step = handler[p].session.step,
                                    !.lastActivity = now]
    /\ handler' = [handler EXCEPT ![p] = IdleHandler]
    /\ UNCHANGED <<limiter, window, sent>>
    /\ OnlyBot

\* sessionMiddleware, after next(): await sessionStore.set(id, ctx.session)
sessionSave(p) ==
    /\ handler[p].pc = "save"
    /\ sessions' = [handler[p].session EXCEPT !.lastActivity = now]
    /\ handler' = [handler EXCEPT ![p] = IdleHandler]
    /\ UNCHANGED <<limiter, window, sent>>
    /\ OnlyBot

-----------------------------------------------------------------------------
(* The message limiter: rateLimiter and rateLimiterMiddleware *)

\* rateLimiter: points per duration, and the block after exceeding, in seconds
MessagePoints == 30
MessageDuration == 60
MessageBlockDuration == 60

\* how far the clock runs
MaxTime == 120

\* how many messages beyond the points of the key are followed
MaxOver == 2

\* the clock advances between two messages by one of these
TimeSteps == {10, 30}

\* the store has no record of the key
NoRecord == [consumed |-> 0, expiresAt |-> 0, windowStart |-> 0]

NoGate == [outcome |-> "none", fault |-> FALSE]

InitThrottle ==
    /\ now = 0
    /\ throttle = NoRecord
    /\ gate = NoGate

\* the record of the key as the store answers: a key past its expiry is gone
LiveRecord == IF now < throttle.expiresAt THEN throttle ELSE NoRecord

\* rateLimiter.consume(userId) rejects when the points are exceeded
ConsumeRejectsMessage == LiveRecord.consumed + 1 > MessagePoints

\* rateLimiter.consume(userId): the first point of a key starts its window;
\* the point that exceeds the limit for the first time blocks the key for
\* blockDuration from that moment; later points only count
ConsumeMessagePoint ==
    LET r == LiveRecord
        n == r.consumed + 1
    IN  IF r.consumed = 0
        THEN [consumed |-> 1, expiresAt |-> now + MessageDuration,
              windowStart |-> now]
        ELSE IF n = MessagePoints + 1 /\ MessageBlockDuration > 0
             THEN [r EXCEPT !.consumed = n,
                            !.expiresAt = now + MessageBlockDuration]
             ELSE [r EXCEPT !.consumed = n]

\* the catch branch of rateLimiterMiddleware: reply and return, next() is
\* not called
MiddlewareOnCatch == "rejected"

\* rateLimiterMiddleware for a message of the chat user
rateLimiterMiddleware ==
    /\ LiveRecord.consumed < MessagePoints + MaxOver
    /\ throttle' = ConsumeMessagePoint
    /\ gate' = [outcome |-> IF ConsumeRejectsMessage
                            THEN MiddlewareOnCatch ELSE "next",
                fault |-> FALSE]
    /\ UNCHANGED <<now, faults, communityVars, identityVars, botVars, utilVars>>

\* rateLimiterMiddleware when the counter backend is unreachable: consume
\* throws before it counted anything
rateLimiterMiddlewareError ==
    /\ gate' = [outcome |-> MiddlewareOnCatch, fault |-> TRUE]
    /\ UNCHANGED <<now, throttle, faults, communityVars, identityVars, botVars, utilVars>>

TimePasses(d) ==
    /\ now + d <= MaxTime
    /\ now' = now + d
    /\ UNCHANGED <<throttle, gate, faults, communityVars, identityVars, botVars, utilVars>>

NextThrottle ==
    \/ rateLimiterMiddleware
    \/ rateLimiterMiddlewareError
    \/ \E d \in TimeSteps : TimePasses(d)

-----------------------------------------------------------------------------
(* The link flow: linkCommand and the text handler *)

\* the resets of the linking fields
ResetStep(s) == [s EXCEPT !.step = NoStep]
ResetLinking(s) ==
    [s EXCEPT !.step = NoStep, !.linkingEmail = NoEmail,
              !.linkingExpiry = NoExpiry]

\* the first statements of sendMagicLinkToUser
SendingLink(s, email) ==
    [s EXCEPT !.step = "sending_link", !.linkingEmail = email,
              !.linkingExpiry = now + LinkValidity]

\* cancelLinking
cancelLinking(s) == ResetLinking(s)

\* startLinkingProcess
startLinkingProcess(s) == [s EXCEPT !.step = "awaiting_email"]

\* linkCommand: getLinkStatus, then the reply to a linked user, or
\* handleEmailInput with the command as its text (no valid email), or
\* startLinkingProcess
linkCommand(p) ==
    /\ At(p, "/link", "handler")
    /\ LET s == handler[p].session IN
       IF getLinkStatus(BotUser).isLinked
       THEN Reply(p, "save", s, "Your account is already linked!")
       ELSE IF s.step = "awaiting_email"
       THEN Reply(p, "save", s, "Invalid Email Address")
       ELSE Reply(p, "save", startLinkingProcess(s), "Link Your Account")
    /\ UNCHANGED <<sessions, limiter, window, sent>>
    /\ OnlyBot

\* the text handler: a text that begins with '/' gets the reply to an unknown
\* command; else handleLinkingFlow: outside step awaiting_email the message
\* gets the general reply, in it handleEmailInput cancels on '/cancel' or
\* validates the text
handleEmailInput(p, text) ==
    /\ At(p, "text", "handler")
    /\ LET s == handler[p].session
           v == validateEmail(text) IN
       IF StartsWithSlash(text)
       THEN handler' = [handler EXCEPT
                ![p].pc = "save", ![p].text = text,
                ![p].reply = "I don't recognize that command."]
       ELSE IF s.step # "awaiting_email"
       THEN handler' = [handler EXCEPT
                ![p].pc = "save", ![p].text = text,
                ![p].reply = "Thanks for your message!"]
       ELSE IF text = "/cancel"
       THEN handler' = [handler EXCEPT
                ![p].pc = "save", ![p].text = text,
                ![p].session = cancelLinking(s),
                ![p].reply = "Linking Cancelled"]
       ELSE IF v.isValid
       THEN handler' = [handler EXCEPT ![p].pc = "check", ![p].text = text,
                                       ![p].email = v.normalizedEmail]
       ELSE handler' = [handler EXCEPT
                ![p].pc = "save", ![p].text = text,
                ![p].reply = "Invalid Email Address"]
    /\ UNCHANGED <<sessions, limiter, window, sent>>
    /\ OnlyBot

\* RateLimiterRedis.get(key).remainingPoints; no record of the key is null,
\* for which canSendMagicLink reports the full number of points
RemainingPoints(consumed) ==
    IF consumed >= MagicLinkPoints THEN 0 ELSE MagicLinkPoints - consumed

\* canSendMagicLink, and on its refusal the reset of handleEmailInput; else
\* the beginning of sendMagicLinkToUser up to the reply it awaits
canSendMagicLink(p) ==
    /\ At(p, "text", "check")
    /\ LET s == handler[p].session
           k == LimiterKey(BotUser, handler[p].email) IN
       IF RemainingPoints(limiter[k]) <= 0
       THEN Reply(p, "save", ResetStep(s), "Magic link limit exceeded!")
       ELSE Reply(p, "consume", SendingLink(s, handler[p].email),
                  "Sending Magic Link...")
    /\ UNCHANGED <<sessions, limiter, window, sent>>
    /\ OnlyBot

\* the catch branch of canSendMagicLink, taken when magicLinkRateLimiter.get
\* throws because the counter backend is unreachable
CanSendOnErrorAllowed == [allowed |-> TRUE, remainingPoints |-> 0]

CanSendOnError == [allowed |-> FALSE, remainingPoints |-> 0]

\* canSendMagicLink with the counter backend unreachable, and what
\* handleEmailInput does with its answer
canSendMagicLinkError(p) ==
    /\ At(p, "text", "check")
    /\ LET s == handler[p].session IN
       IF ~CanSendOnError.allowed
       THEN handler' = [handler EXCEPT
                ![p].pc = "save", ![p].fault = TRUE,
                ![p].session = ResetStep(s),
                ![p].reply = "Unable to check request limits."]
       ELSE handler' = [handler EXCEPT
                ![p].pc = "consume", ![p].fault = TRUE,
                ![p].session = SendingLink(s, handler[p].email),
                ![p].reply = "Sending Magic Link..."]
    /\ UNCHANGED <<sessions, limiter, window, sent>>
    /\ OnlyBot

\* RateLimiterRedis.consume(key) rejects when the points consumed, this one
\* included, exceed the points of the limiter
ConsumeRejectsNever(consumed) == FALSE

ConsumeRejects(consumed) == consumed + 1 > MagicLinkPoints

\* consumeMagicLinkRequest: the point is counted in one atomic store call;
\* a rejection is rethrown and sendMagicLinkToUser resets the linking fields
consumeMagicLinkRequest(p) ==
    /\ At(p, "text", "consume")
    /\ LET s == handler[p].session
           k == LimiterKey(BotUser, handler[p].email) IN
       /\ limiter' = [limiter EXCEPT ![k] = @ + 1]
       /\ IF ConsumeRejects(limiter[k])
          THEN handler' = [handler EXCEPT
                   ![p].pc = "save", ![p].rejected = TRUE,
                   ![p].session = ResetLinking(s),
                   ![p].reply = "Error Sending Magic Link"]
          ELSE handler' = [handler EXCEPT ![p].pc = "send",
                                          ![p].window = window[k]]
    /\ UNCHANGED <<sessions, window, sent>>
    /\ OnlyBot

\* consumeMagicLinkRequest with the counter backend unreachable: consume
\* throws without counting, the error is rethrown and sendMagicLinkToUser
\* resets the linking fields
consumeMagicLinkRequestError(p) ==
    /\ At(p, "text", "consume")
    /\ handler' = [handler EXCEPT
             ![p].pc = "save", ![p].fault = TRUE,
             ![p].session = ResetLinking(handler[p].session),
             ![p].reply = "Error Sending Magic Link"]
    /\ UNCHANGED <<sessions, limiter, window, sent>>
    /\ OnlyBot

\* magicLinkResult.success, kept with the task
SendResult(success) == IF success THEN "success" ELSE "failure"

\* magicLinkResult.error of a failed sendMagicLink: the error.message of
\* signInWithOtp, or 'Failed to send magic link' when the call threw
MagicLinkError == "${magicLinkResult.error}"

\* sendMagicLink is invoked, for the point consumed in window handler[p].window
\* of the key, and succeeds or fails
sendMagicLink(p, success) ==
    /\ At(p, "text", "send")
    /\ LET s == handler[p].session
           k == LimiterKey(BotUser, handler[p].email)
           w == handler[p].window IN
       /\ sent' = [sent EXCEPT ![k][w] = @ + 1]
       /\ handler' = [handler EXCEPT
              ![p].pc = "save", ![p].sendResult = SendResult(success),
              ![p].session =
                  IF success THEN [s EXCEPT !.step = "awaiting_verification"]
                  ELSE ResetLinking(s),
              ![p].reply = IF success THEN "Magic Link Sent!"
                           ELSE "Failed to Send Magic Link",
              ![p].detail = IF success THEN "" ELSE MagicLinkError]
    /\ UNCHANGED <<sessions, limiter, window>>
    /\ OnlyBot

\* the catch block of sendMagicLinkToUser after a ctx.reply of the try block
\* threw: it replies and then resets the linking fields; when its own reply
\* throws too (caught is FALSE) the reset is skipped, the error reaches
\* asyncErrorHandler and the session is saved as it stands
sendMagicLinkToUserCatch(p, pc, s, result, caught) ==
    handler' = [handler EXCEPT
        ![p].pc = pc, ![p].thrown = TRUE, ![p].sendResult = result,
        ![p].session = IF caught THEN ResetLinking(s) ELSE s,
        ![p].reply = IF caught THEN "Error Sending Magic Link"
                     ELSE "Something went wrong!"]

\* the reply "Sending Magic Link..." throws: nothing is consumed or sent
sendingReplyThrows(p, caught) ==
    /\ At(p, "text", "consume")
    /\ sendMagicLinkToUserCatch(p, "save", handler[p].session, "none", caught)
    /\ UNCHANGED <<sessions, limiter, window, sent>>
    /\ OnlyBot

\* sendMagicLink is invoked and the reply that reports its outcome throws
sendMagicLinkReplyThrows(p, success, caught) ==
    /\ At(p, "text", "send")
    /\ LET s == handler[p].session
           k == LimiterKey(BotUser, handler[p].email)
           w == handler[p].window IN
       /\ sent' = [sent EXCEPT ![k][w] = @ + 1]
       /\ sendMagicLinkToUserCatch(p, "save",
              IF success THEN [s EXCEPT !.step = "awaiting_verification"]
              ELSE s,
              SendResult(success), caught)
    /\ UNCHANGED <<sessions, limiter, window>>
    /\ OnlyBot

\* the record of a limiter key expires in the store, duration (or, once the
\* key is blocked, blockDuration) after it was created: its window ends
LimiterKeyExpires(k) ==
    /\ limiter[k] > 0
    /\ window[k] < MaxWindows
    /\ limiter' = [limiter EXCEPT ![k] = 0]
    /\ window' = [window EXCEPT ![k] = @ + 1]
    /\ UNCHANGED <<sessions, handler, sent>>
    /\ OnlyBot

NextLink ==
    \/ \E p \in Procs, kind \in {"/link", "text"} : sessionMiddleware(p, kind)
    \/ \E p \in Procs : authMiddleware(p)
    \/ \E p \in Procs : linkCommand(p)
    \/ \E p \in Procs, text \in EmailTexts : handleEmailInput(p, text)
    \/ \E p \in Procs : canSendMagicLink(p)
    \/ \E p \in Procs : consumeMagicLinkRequest(p)
    \/ \E p \in Procs, success \in BOOLEAN : sendMagicLink(p, success)
    \/ \E p \in Procs : sessionSave(p)
    \/ \E k \in LimiterKeys : LimiterKeyExpires(k)
    \/ \E p \in Procs : canSendMagicLinkError(p)
    \/ \E p \in Procs : consumeMagicLinkRequestError(p)
    \/ rateLimiterMiddlewareError

\* the link flow with replies of sendMagicLinkToUser that throw
NextSend ==
    \/ NextLink
    \/ \E p \in Procs, caught \in BOOLEAN : sendingReplyThrows(p, caught)
    \/ \E p \in Procs, success \in BOOLEAN, caught \in BOOLEAN :
          sendMagicLinkReplyThrows(p, success, caught)

\* C3: under every key, at most MagicLinkPoints sendMagicLink invocations are
\* made for points consumed in one window of the limiter, however the
\* messages of the user interleave between canSendMagicLink and
\* consumeMagicLinkRequest.
C3_AtMostThreeMagicLinksPerWindow ==
    \A k \in LimiterKeys : \A w \in 0..MaxWindows :
        sent[k][w] <= MagicLinkPoints

\* three links were sent in one window and a racing message, which passed
\* canSendMagicLink, had its consumption rejected
C3_ThreeSentRacerRejected ==
    \E k \in LimiterKeys : \E w \in 0..MaxWindows : \E p \in Procs :
        /\ sent[k][w] = MagicLinkPoints
        /\ handler[p].rejected
        /\ LimiterKey(BotUser, handler[p].email) = k

-----------------------------------------------------------------------------
(* startCommand and the community creation wizard *)

\* startCommand: getOrCreateUser is called (its select is made)
startCommand(p) ==
    /\ At(p, "/start", "handler")
    /\ ~IdRunning(p)
    /\ GetOrCreateCall(p, BotUser)
    /\ handler' = [handler EXCEPT ![p].pc = "getOrCreateUser"]
    /\ UNCHANGED <<users, faults, sessions, limiter, window, sent>>
    /\ UNCHANGED <<communityVars, throttleVars, utilVars>>

\* startCommand, once getOrCreateUser has returned: the step is reset
startCommandReset(p) ==
    /\ At(p, "/start", "getOrCreateUser")
    /\ idcall[p].pc = "done"
    /\ idcall' = [idcall EXCEPT ![p] = IdleIdCall]
    /\ Goto(p, "save", ResetStep(handler[p].session))
    /\ UNCHANGED <<users, faults, sessions, limiter, window, sent>>
    /\ UNCHANGED <<communityVars, throttleVars, utilVars>>

\* createCommunityCommand: refused without a cached user row, else the flow
\* is initialised at step 1
createCommunityCommand(p) ==
    /\ At(p, "/create_community", "handler")
    /\ LET s == handler[p].session IN
       Goto(p, "save",
            IF s.user = {} THEN s
            ELSE [s EXCEPT !.communityCreation = [NoFlow EXCEPT !.step = 1]])
    /\ UNCHANGED <<sessions, limiter, window, sent>>
    /\ OnlyBot

\* handleCommunityCreationFlow outside a flow: the message is not handled
handleCommunityCreationFlow(p) ==
    /\ At(p, "wizard", "handler")
    /\ handler[p].session.communityCreation = NoFlow
    /\ Goto(p, "save", handler[p].session)
    /\ UNCHANGED <<sessions, limiter, window, sent>>
    /\ OnlyBot

InStep(p, n) ==
    /\ At(p, "wizard", "handler")
    /\ handler[p].session.communityCreation.step = n

\* the flow of the session of task p, changed and stored back
SetFlow(p, flow) ==
    [handler[p].session EXCEPT !.communityCreation = flow]

\* handleStep1: length and charset of the slug, then getBySlug(text), called
\* without a user; the slug is stored and the flow advances when it returns
\* no community
handleStep1(p, text) ==
    /\ InStep(p, 1)
    /\ LET flow == handler[p].session.communityCreation
           accepted ==
               /\ Len(text) >= MinSlugLen /\ Len(text) <= MaxSlugLen
               /\ SlugRegexTest(text)
               /\ getBySlug(text, NoUser) = {} IN
       handler' = [handler EXCEPT
           ![p].pc = "save",
           ![p].slugText = text,
           ![p].session =
               IF accepted
               THEN SetFlow(p, [flow EXCEPT !.slug = text, !.step = 2])
               ELSE handler[p].session]
    /\ UNCHANGED <<sessions, limiter, window, sent>>
    /\ OnlyBot

NameLengthOkAny(text) == TRUE

\* handleStep2's check of the name: 3 to 100 characters
NameLengthOk(text) == Len(text) >= MinNameLen /\ Len(text) <= MaxNameLen

\* handleStep2: the name is stored and the flow advances
handleStep2(p, text) ==
    /\ InStep(p, 2)
    /\ LET flow == handler[p].session.communityCreation IN
       handler' = [handler EXCEPT
           ![p].pc = "save",
           ![p].slugText = text,
           ![p].session =
               IF NameLengthOk(text)
               THEN SetFlow(p, [flow EXCEPT !.name = text, !.step = 3])
               ELSE handler[p].session]
    /\ UNCHANGED <<sessions, limiter, window, sent>>
    /\ OnlyBot

\* handleStep3: the description ("skip" leaves it undefined; a text of more
\* than 500 characters, here "too long", is refused)
handleStep3(p, text) ==
    /\ InStep(p, 3)
    /\ LET flow == handler[p].session.communityCreation IN
       handler' = [handler EXCEPT
           ![p].pc = "save",
           ![p].text = text,
           ![p].session =
               IF text = "too long" THEN handler[p].session
               ELSE SetFlow(p, [flow EXCEPT
                        !.description = IF text = "skip" THEN "unset"
                                        ELSE text,
                        !.step = 4])]
    /\ UNCHANGED <<sessions, limiter, window, sent>>
    /\ OnlyBot

\* handleStep4: "public" or "private"
handleStep4(p, choice) ==
    /\ InStep(p, 4)
    /\ LET flow == handler[p].session.communityCreation IN
       handler' = [handler EXCEPT
           ![p].pc = "save",
           ![p].text = choice,
           ![p].session =
               IF choice \in {"public", "private"}
               THEN SetFlow(p, [flow EXCEPT !.is_private = choice,
                                           !.step = 5])
               ELSE handler[p].session]
    /\ UNCHANGED <<sessions, limiter, window, sent>>
    /\ OnlyBot

\* handleStep5 with "cancel", "back" or another text that is not "create"
handleStep5(p, choice) ==
    /\ InStep(p, 5)
    /\ LET flow == handler[p].session.communityCreation IN
       handler' = [handler EXCEPT
           ![p].pc = "save",
           ![p].text = choice,
           ![p].session =
               IF choice = "cancel" THEN SetFlow(p, NoFlow)
               ELSE IF choice = "back"
               THEN SetFlow(p, [flow EXCEPT !.step = 4])
               ELSE handler[p].session]
    /\ UNCHANGED <<sessions, limiter, window, sent>>
    /\ OnlyBot

\* handleStep5 with "create": CommunityService.create(ctx.session.user.id, ..)
handleStep5Create(p) ==
    /\ InStep(p, 5)
    /\ ~Running(p)
    /\ LET flow == handler[p].session.communityCreation
           user == CHOOSE u \in handler[p].session.user : TRUE IN
       CreateCall(p, user.id, flow.slug, flow.name,
                  flow.is_private = "private")
    /\ handler' = [handler EXCEPT ![p].pc = "create", ![p].text = "create"]
    /\ UNCHANGED <<communities, community_members, member_count, faults>>
    /\ UNCHANGED <<sessions, limiter, window, sent>>
    /\ UNCHANGED <<identityVars, throttleVars, utilVars>>

\* handleStep5, once create has returned or thrown: the flow is deleted
handleStep5Created(p) ==
    /\ At(p, "wizard", "create")
    /\ call[p].pc = "done"
    /\ call' = [call EXCEPT ![p] = IdleCall]
    /\ handler' = [handler EXCEPT
           ![p].pc = "save", ![p].session = SetFlow(p, NoFlow),
           ![p].reply = IF call[p].result = "ok"
                        THEN "Community Created Successfully!"
                        ELSE "Failed to create community: ${error.message}",
           ![p].detail = IF call[p].result = "ok" THEN ""
                         ELSE call[p].result]
    /\ UNCHANGED <<communities, community_members, member_count, faults>>
    /\ UNCHANGED <<sessions, limiter, window, sent>>
    /\ UNCHANGED <<identityVars, throttleVars, utilVars>>

\* handleStep5, once create has returned or thrown, with replies that throw.
\* After a creation the flow is deleted before the reply.  After a failure
\* the catch block replies before it deletes the flow: when that reply throws
\* the catch block of handleCommunityCreationFlow replies and deletes the
\* flow, and when its reply throws too (caught is FALSE) nothing deletes it.
handleStep5CreatedReplyThrows(p, caught) ==
    /\ At(p, "wizard", "create")
    /\ call[p].pc = "done"
    /\ call' = [call EXCEPT ![p] = IdleCall]
    /\ handler' = [handler EXCEPT
           ![p].pc = "save", ![p].thrown = TRUE,
           ![p].session = IF call[p].result = "ok" \/ caught
                          THEN SetFlow(p, NoFlow)
                          ELSE handler[p].session,
           ![p].reply = IF caught THEN "Something went wrong. Let's start over"
                        ELSE "Something went wrong!"]
    /\ UNCHANGED <<communities, community_members, member_count, faults>>
    /\ UNCHANGED <<sessions, limiter, window, sent>>
    /\ UNCHANGED <<identityVars, throttleVars, utilVars>>

DescriptionTexts == {"skip", "about us", "too long"}
PrivacyTexts == {"public", "private", "maybe"}
ConfirmTexts == {"cancel", "back", "yes"}

NextWizard ==
    \/ \E p \in Procs,
          kind \in {"/start", "/link", "/create_community", "wizard"} :
          sessionMiddleware(p, kind)
    \/ \E p \in Procs : authMiddleware(p)
    \/ \E p \in Procs : startCommand(p)
    \/ \E p \in Procs : GetOrCreateInsert(p)
    \/ \E p \in Procs : startCommandReset(p)
    \/ \E p \in Procs : linkCommand(p)
    \/ \E p \in Procs : createCommunityCommand(p)
    \/ \E p \in Procs : handleCommunityCreationFlow(p)
    \/ \E p \in Procs, text \in SlugInputs : handleStep1(p, text)
    \/ \E p \in Procs, text \in NameInputs : handleStep2(p, text)
    \/ \E p \in Procs, text \in DescriptionTexts : handleStep3(p, text)
    \/ \E p \in Procs, choice \in PrivacyTexts : handleStep4(p, choice)
    \/ \E p \in Procs, choice \in ConfirmTexts : handleStep5(p, choice)
    \/ \E p \in Procs : handleStep5Create(p)
    \/ \E p \in Procs : CreateInsert(p)
    \/ \E p \in Procs : CreateAddMember(p)
    \/ \E p \in Procs : handleStep5Created(p)
    \/ \E p \in Procs : sessionSave(p)

-----------------------------------------------------------------------------
(* Claims about the flows of a session, checked under SpecWizard *)

\* a session in which the auth step and the wizard state are not both set
OneFlowAtMost(s) == s.step = NoStep \/ s.communityCreation = NoFlow

\* a step of linkCommand that starts the link flow
StartsLinking(p) ==
    /\ At(p, "/link", "handler")
    /\ handler[p].session.step # "awaiting_email"
    /\ handler'[p].session.step = "awaiting_email"

\* a step of createCommunityCommand that starts the wizard
StartsWizard(p) ==
    /\ At(p, "/create_community", "handler")
    /\ handler'[p].session.communityCreation # NoFlow

\* C9: in every persisted session at most one flow is active (session.step
\* and session.communityCreation are never both set); starting the link flow
\* clears the wizard state and starting the wizard clears the auth step.
C9_AtMostOneActiveFlow ==
    /\ []OneFlowAtMost(sessions)
    /\ [][\A p \in Procs :
             /\ StartsLinking(p) =>
                   handler'[p].session.communityCreation = NoFlow
             /\ StartsWizard(p) =>
                   handler'[p].session.step = NoStep]_vars

\* the text has the format of a slug: 3..50 characters over [a-z0-9_-]
SlugFormatOk(text) ==
    /\ Len(text) >= MinSlugLen /\ Len(text) <= MaxSlugLen
    /\ SlugRegexTest(text)

\* C10: for a text S in the format of a slug, step 1 of the wizard accepts S
\* (the flow advances to step 2) if and only if no community, public or
\* private, has slug S.
C10_Step1AcceptsIffSlugFree ==
    [][\A p \in Procs :
          (InStep(p, 1) /\ handler'[p].pc = "save"
              /\ SlugFormatOk(handler'[p].slugText))
          => (handler'[p].session.communityCreation.step = 2
                <=> CommunityBySlug(handler'[p].slugText) = {})]_vars

-----------------------------------------------------------------------------
(* Claims about the message limiter, checked under SpecThrottle *)

\* C12: for a fresh key the first 30 messages within 60 seconds are passed
\* on, the 31st within that window is rejected, and a message sent 60 seconds
\* or more after the first message of the window is passed on again, whatever
\* the time at which the 31st message was rejected.
C12_ThirtyPerWindowThenAgain ==
    [][throttle' # throttle =>
          /\ LiveRecord.consumed < MessagePoints => gate'.outcome = "next"
          /\ LiveRecord.consumed = MessagePoints => gate'.outcome = "rejected"
          /\ (throttle.consumed > 0
                /\ now >= throttle.windowStart + MessageDuration)
             => gate'.outcome = "next"]_vars

-----------------------------------------------------------------------------
(* Claims about the limiters with the counter backend unreachable *)

\* C13: when the counter backend is unreachable both limiters fail closed:
\* canSendMagicLink answers allowed = false, so that the handler ends without
\* consuming a point or sending a magic link, a failing consume sends nothing
\* either, and rateLimiterMiddleware does not call the next handler.
C13_LimitersFailClosed ==
    /\ [](\A p \in Procs : handler[p].fault => handler[p].pc = "save")
    /\ [][/\ \A p \in Procs :
               (handler'[p].fault /\ ~handler[p].fault) =>
                   /\ handler'[p].session.step = NoStep
                   /\ limiter' = limiter
                   /\ sent' = sent
          /\ (gate'.fault /\ gate' # gate) => gate'.outcome # "next"]_vars

\* a message was dropped by rateLimiterMiddleware for a backend failure and
\* the handlers of two valid email addresses were ended by one
C13_BothLimitersFailed ==
    /\ gate.fault /\ gate.outcome = "rejected"
    /\ \A p \in Procs :
          /\ handler[p].fault
          /\ handler[p].email # NoEmail
          /\ handler[p].session.step = NoStep

-----------------------------------------------------------------------------
(* Claims about linkCommand, checked under SpecLinkCommand *)

\* the link command is handled while the link callback binds identities to
\* the chat id of the sender
NextLinkCommand ==
    \/ \E p \in Procs : sessionMiddleware(p, "/link")
    \/ \E p \in Procs : authMiddleware(p)
    \/ \E p \in Procs : linkCommand(p)
    \/ \E p \in Procs : sessionSave(p)
    \/ \E p \in Procs, token \in AuthIds : VerifyStart(p, token, BotUser)
    \/ \E p \in Procs : LinkUpsert(p)

\* the step of linkCommand for a message of task p
LinkCommandStep(p) ==
    /\ handler[p].kind = "/link" /\ handler[p].pc = "handler"
    /\ handler'[p].pc = "save"

\* table users has a row of the chat user with an email
ChatUserLinked == \E u \in users : u.telegram_id = BotUser /\ u.email # NoEmail

-----------------------------------------------------------------------------
(* Claims about the text handler in awaiting_email, checked under SpecLink *)

\* the text handler takes the text of a message of task p while the session
\* it holds is in awaiting_email
TextInAwaitingEmail(p, text) ==
    /\ handler[p].kind = "text" /\ handler[p].pc = "handler"
    /\ handler[p].session.step = "awaiting_email"
    /\ handler'[p].pc # "handler"
    /\ handler'[p].text = text

\* C19: in awaiting_email a text that fails the email validation leaves the
\* session in awaiting_email with linkingEmail (and with it linkingExpiry)
\* unchanged, consumes no point of the magic-link limiter and sends no email.
C19_InvalidEmailKeepsAwaiting ==
    [][\A p \in Procs :
          TextInAwaitingEmail(p, "not an email") =>
              /\ handler'[p].pc = "save"
              /\ handler'[p].session = handler[p].session
              /\ limiter' = limiter
              /\ sent' = sent]_vars

\* an invalid text was answered in awaiting_email for a session that holds
\* the email of an earlier flow, after points of the limiter were consumed
C19_InvalidTextRejected ==
    \E p \in Procs :
        /\ handler[p].text = "not an email" /\ handler[p].pc = "save"
        /\ handler[p].session.step = "awaiting_email"
        /\ handler[p].session.linkingEmail # NoEmail
        /\ \E k \in LimiterKeys : limiter[k] > 0

\* C20: when the session is in awaiting_email and the user sends the cancel
\* command, the session returns to idle (step unset) with linkingEmail
\* cleared.
C20_CancelReturnsToIdle ==
    [][\A p \in Procs :
          TextInAwaitingEmail(p, "/cancel") =>
              /\ handler'[p].session.step = NoStep
              /\ handler'[p].session.linkingEmail = NoEmail]_vars

-----------------------------------------------------------------------------
(* Claims about the limiter's refusal, checked under SpecLink *)

\* the magic-link limiter, answering, denies the request of the handler of
\* task p: the key of its email has no point left when the handler asks
LimiterDenies(p) ==
    /\ handler[p].kind = "text" /\ handler[p].pc \in {"check", "consume"}
    /\ handler'[p].pc # handler[p].pc
    /\ ~handler'[p].fault /\ ~handler'[p].thrown
    /\ limiter[LimiterKey(BotUser, handler[p].email)] >= MagicLinkPoints

\* C21: a valid email sent in awaiting_email for which the magic-link limiter
\* denies the request moves the session to idle, sends no email, consumes no
\* further point, and is answered with the retry message of the limiter.
C21_DenialResetsWithRetryMessage ==
    [][\A p \in Procs :
          LimiterDenies(p) =>
              /\ handler'[p].pc = "save"
              /\ handler'[p].session.step = NoStep
              /\ sent' = sent
              /\ limiter' = limiter
              /\ handler'[p].reply = "Magic link limit exceeded!"]_vars

-----------------------------------------------------------------------------
(* Claims about sendMagicLinkToUser, checked under SpecSend *)

\* the step of task p in which sendMagicLink is invoked and succeeds
SendSucceeds(p) ==
    /\ handler[p].pc = "send"
    /\ handler'[p].sendResult = "success"

\* C22: when sendMagicLink succeeds the session of the handler goes from
\* sending_link to awaiting_verification, with linkingEmail the trimmed and
\* lower-cased email of the message and linkingExpiry 24 hours after the
\* time of the handling.
C22_SendSuccessAwaitsVerification ==
    [][\A p \in Procs : SendSucceeds(p) =>
          /\ handler[p].session.step = "sending_link"
          /\ handler'[p].session.step = "awaiting_verification"
          /\ handler[p].text \in {"e1@x.io", " E1@X.io "}
          /\ handler'[p].session.linkingEmail = "e1@x.io"
          /\ handler'[p].session.linkingExpiry = now + LinkValidity]_vars

\* the step of task p in which the sending fails: sendMagicLink reports a
\* failure, or consumeMagicLinkRequest throws (a rejection or a backend error)
SendFails(p) ==
    \/ handler[p].pc = "send" /\ handler'[p].sendResult = "failure"
    \/ /\ handler[p].pc = "consume"
       /\ handler'[p].rejected \/ handler'[p].fault

\* C23: when the sending of the magic link fails the session of the handler
\* goes to idle, step unset, with linkingEmail and linkingExpiry cleared, so
\* that the next link command starts a new flow.
C23_SendFailureReturnsToIdle ==
    [][\A p \in Procs : SendFails(p) =>
          /\ handler'[p].pc = "save"
          /\ handler'[p].session.step = NoStep
          /\ handler'[p].session.linkingEmail = NoEmail
          /\ handler'[p].session.linkingExpiry = NoExpiry]_vars

-----------------------------------------------------------------------------
(* linkStatusCommand, the clock of the link's validity and the store's
   expiry of sessions; claims checked under SpecStatus *)

\* the clock is followed for so many seconds, in steps of half a day
MaxClock == 172800
ClockSteps == {43200}

displayUnlinkedStatusNeverExpired(s) ==
    IF s.step # NoStep /\ s.linkingEmail # NoEmail
    THEN "Next: Check your email and click the magic link!"
    ELSE "Next Steps"

\* displayUnlinkedStatus: the part of the reply that tells the state of the
\* linking, from the session and the clock
displayUnlinkedStatus(s) ==
    IF s.step # NoStep /\ s.linkingEmail # NoEmail
    THEN IF s.linkingExpiry # NoExpiry /\ now > s.linkingExpiry
         THEN "Your linking session has expired. Use /link to start over."
         ELSE IF s.linkingExpiry # NoExpiry
                 /\ s.step = "awaiting_verification"
         THEN "Next: Check your email and click the magic link!"
         ELSE IF s.linkingExpiry # NoExpiry /\ s.step = "awaiting_email"
         THEN "Next: Send your email address to continue linking."
         ELSE "Linking in Progress"
    ELSE "Next Steps"

\* linkStatusCommand: getLinkStatus, then displayLinkedStatus or
\* displayUnlinkedStatus; the session is left as it is
linkStatusCommand(p) ==
    /\ At(p, "/link_status", "handler")
    /\ LET s == handler[p].session IN
       IF getLinkStatus(BotUser).isLinked
       THEN Reply(p, "save", s, "Account Successfully Linked")
       ELSE Reply(p, "save", s, displayUnlinkedStatus(s))
    /\ UNCHANGED <<sessions, limiter, window, sent>>
    /\ OnlyBot

\* time passes
ClockAdvances(d) ==
    /\ now + d <= MaxClock
    /\ now' = now + d
    /\ UNCHANGED <<communityVars, identityVars, botVars, utilVars, faults, throttle,
                   gate>>

\* the messages of the chat user are handled one at a time by ChatTask, the
\* link callback for the chat id runs in CallbackTask, and time passes
ChatTask == "p1"
CallbackTask == "p2"

NextStatus ==
    \/ \E kind \in {"/link", "text", "/link_status"} :
          sessionMiddleware(ChatTask, kind)
    \/ authMiddleware(ChatTask)
    \/ linkCommand(ChatTask)
    \/ handleEmailInput(ChatTask, "e1@x.io")
    \/ canSendMagicLink(ChatTask)
    \/ consumeMagicLinkRequest(ChatTask)
    \/ sendMagicLink(ChatTask, TRUE)
    \/ linkStatusCommand(ChatTask)
    \/ sessionSave(ChatTask)
    \/ VerifyStart(CallbackTask, "s1", BotUser)
    \/ LinkUpsert(CallbackTask)
    \/ \E d \in ClockSteps : ClockAdvances(d)

\* the session that task p got was loaded with the identity of the chat user
\* already linked: its message came after the link callback
LoadedLinked(p) == \E u \in handler[p].session.user : u.email # NoEmail

\* C24: once the link callback has bound the identity of a user whose session
\* waits in awaiting_verification, the handling of the user's next message or
\* command saves a session with step unset and without linkingEmail and
\* linkingExpiry.
C24_LinkedSessionCollapsesToIdle ==
    [][\A p \in Procs :
          (/\ handler[p].pc = "save" /\ handler'[p].pc = "done"
           /\ LoadedLinked(p)
           /\ StoredSession.step = "awaiting_verification") =>
              /\ sessions'.step = NoStep
              /\ sessions'.linkingEmail = NoEmail
              /\ sessions'.linkingExpiry = NoExpiry]_vars

\* the step of linkStatusCommand for a message of task p
StatusQuery(p) ==
    /\ handler[p].kind = "/link_status"
    /\ handler[p].pc = "handler" /\ handler'[p].pc = "save"

\* C25: for an unlinked user whose session is in awaiting_verification a
\* status query answers that the linking has expired when the clock is past
\* linkingExpiry and that the link is to be clicked when it is not; and the
\* session that the store holds changes only when a handler saves it, never
\* by the passing of time.
C25_ExpiryIsReadLazily ==
    [][/\ \A p \in Procs :
            (/\ StatusQuery(p)
             /\ UserByTelegramId(BotUser) = {}
             /\ handler[p].session.step = "awaiting_verification") =>
                handler'[p].reply =
                    IF now > handler[p].session.linkingExpiry
                    THEN "Your linking session has expired. Use /link to start over."
                    ELSE "Next: Check your email and click the magic link!"
       /\ \A s \in {StoredSession} :
            (s.step = "awaiting_verification" /\ StoredSession' # s) =>
                \E p \in Procs : handler[p].pc = "save"]_vars

\* C25, amended: for an unlinked user whose session, as loaded from the
\* store, is in awaiting_verification a status query answers that the
\* linking has expired when the clock is past linkingExpiry and that the link
\* is to be clicked when it is not; the stored session changes only when a
\* handler saves it or when the store drops it, SessionTtl after its last
\* save.
C25_StatusFromStoredSession ==
    [][/\ \A p \in Procs :
            (/\ StatusQuery(p)
             /\ UserByTelegramId(BotUser) = {}
             /\ handler[p].session.step = "awaiting_verification") =>
                /\ now > handler[p].session.linkingExpiry =>
                      handler'[p].reply =
                          "Your linking session has expired. Use /link to start over."
                /\ now <= handler[p].session.linkingExpiry =>
                      handler'[p].reply =
                          "Next: Check your email and click the magic link!"
       /\ \A s \in {StoredSession} :
            (s.step = "awaiting_verification" /\ StoredSession' # s) =>
                \/ \E p \in Procs : handler[p].pc = "save"
                \/ /\ now < sessions.lastActivity + SessionTtl
                   /\ now' >= sessions.lastActivity + SessionTtl
                   /\ StoredSession' = DefaultSession]_vars

\* an unlinked user whose session waits in awaiting_verification, past its
\* linkingExpiry, was told by a status query that the linking has expired
C25_ExpiredReported ==
    \E p \in Procs :
        /\ handler[p].kind = "/link_status" /\ handler[p].pc = "save"
        /\ UserByTelegramId(BotUser) = {}
        /\ handler[p].session.step = "awaiting_verification"
        /\ now > handler[p].session.linkingExpiry
        /\ handler[p].reply =
              "Your linking session has expired. Use /link to start over."

-----------------------------------------------------------------------------
(* The wizard of one chat user, message by message; claims checked under
   SpecSteps *)

\* the text "cancel" as the characters of a slug or of a name
TextCancel == <<"c", "a", "n", "c", "e", "l">>

\* the chat user gets an identity by /start and runs the wizard; the store
\* may fail a write of create
NextSteps ==
    \/ \E kind \in {"/start", "/create_community", "wizard"} :
          sessionMiddleware(ChatTask, kind)
    \/ authMiddleware(ChatTask)
    \/ startCommand(ChatTask)
    \/ GetOrCreateInsert(ChatTask)
    \/ startCommandReset(ChatTask)
    \/ createCommunityCommand(ChatTask)
    \/ handleCommunityCreationFlow(ChatTask)
    \/ \E text \in SlugInputs \cup {TextCancel} : handleStep1(ChatTask, text)
    \/ \E text \in NameInputs \cup {TextCancel} : handleStep2(ChatTask, text)
    \/ \E text \in DescriptionTexts \cup {"cancel"} :
          handleStep3(ChatTask, text)
    \/ \E choice \in PrivacyTexts \cup {"cancel"} :
          handleStep4(ChatTask, choice)
    \/ \E choice \in ConfirmTexts : handleStep5(ChatTask, choice)
    \/ handleStep5Create(ChatTask)
    \/ CreateInsert(ChatTask)
    \/ CreateAddMember(ChatTask)
    \/ StoreWriteFault(ChatTask)
    \/ handleStep5Created(ChatTask)
    \/ \E caught \in BOOLEAN : handleStep5CreatedReplyThrows(ChatTask, caught)
    \/ sessionSave(ChatTask)

\* the step in which the handler of a wizard message of task p ends, other
\* than by creating the community
WizardInput(p) ==
    /\ At(p, "wizard", "handler")
    /\ handler[p].session.communityCreation # NoFlow
    /\ handler'[p].pc = "save"

CancelInput(p) ==
    /\ WizardInput(p)
    /\ \/ handler[p].session.communityCreation.step \in {1, 2}
          /\ handler'[p].slugText = TextCancel
       \/ handler[p].session.communityCreation.step \in {3, 4, 5}
          /\ handler'[p].text = "cancel"

\* C27: at each of the steps 1 to 5 the input "cancel" removes the wizard
\* state from the session; the step does not advance and no community is
\* created.
C27_CancelDiscardsWizard ==
    [][\A p \in Procs : CancelInput(p) =>
          /\ handler'[p].session.communityCreation = NoFlow
          /\ communities' = communities]_vars

\* the step in which the handler of "create" at step 5 ends, after
\* CommunityService.create has returned or thrown
CreateHandled(p) ==
    /\ At(p, "wizard", "create")
    /\ handler'[p].pc = "save"

\* C28: once "create" has been handled at step 5 the wizard state is removed
\* from the session, whether CommunityService.create made the community or
\* failed (validation, slug taken, store error), so that no later message
\* resumes the wizard.
C28_CreateClearsWizard ==
    [][\A p \in Procs : CreateHandled(p) =>
          handler'[p].session.communityCreation = NoFlow]_vars

-----------------------------------------------------------------------------
(* Claims about member_count, checked under SpecMembership *)

\* the membership rows of community cid with status active
ActiveRowsOf(cid) ==
    {m \in community_members : m.community_id = cid /\ m.status = "active"}

-----------------------------------------------------------------------------
(* The role guards: hasRole and requireRole; claims checked under SpecRoles *)

\* UserRole
Roles == {"user", "communityAdmin", "siteAdmin"}

\* the role lists of requireAdmin, requireCommunityAdmin and requireAuth
requireAdmin == {"siteAdmin"}
requireCommunityAdmin == {"siteAdmin", "communityAdmin"}
requireAuth == {"siteAdmin", "communityAdmin", "user"}

\* the lists of the named guards; isAdmin and isCommunityAdmin test the lists
\* of requireAdmin and requireCommunityAdmin
NamedRoleLists == {requireAdmin, requireCommunityAdmin, requireAuth}

\* the role lists a guard is made with: those three and the other lists that
\* requireRole and ctx.assertRole take
RoleLists == SUBSET Roles \ {{}}

\* hasRole without the test of the role
hasRoleOfAnyRow(user, requiredRoles) ==
    user # {}

\* hasRole(user, requiredRoles), user being null (no row) or a row
hasRole(user, requiredRoles) ==
    /\ user # {}
    /\ \A u \in user : u.role \in requiredRoles

\* roleGuardMiddleware of requireRole(...allowedRoles): without a cached user
\* row, or with a row whose role is not in the list, the message is answered
\* and dropped; else next() is called
roleGuardMiddleware(p, allowedRoles) ==
    /\ At(p, "/guarded", "handler")
    /\ LET s == handler[p].session IN
       handler' = [handler EXCEPT
           ![p].pc = "save",
           ![p].allowedRoles = allowedRoles,
           ![p].reply = IF s.user = {}
                        THEN "You need to link your account first!"
                        ELSE IF ~hasRole(s.user, allowedRoles)
                        THEN "Access denied!"
                        ELSE "next"]
    /\ UNCHANGED <<sessions, limiter, window, sent>>
    /\ OnlyBot

\* updateUserRole(targetUserId, newRole): the role of the row with this id is
\* set; without such a row the update fails and nothing is written
updateUserRole(targetUserId, newRole) ==
    /\ \E u \in UserById(targetUserId) :
          users' = (users \ {u}) \cup {[u EXCEPT !.role = newRole]}
    /\ UNCHANGED idcall
    /\ OnlyIdentity
    /\ UNCHANGED faults

\* guarded commands of the chat user, whose identity is linked by the callback
\* and whose role is set by an administrator
NextRoles ==
    \/ sessionMiddleware(ChatTask, "/guarded")
    \/ authMiddleware(ChatTask)
    \/ \E allowedRoles \in RoleLists :
          roleGuardMiddleware(ChatTask, allowedRoles)
    \/ sessionSave(ChatTask)
    \/ \E token \in AuthIds : VerifyStart(CallbackTask, token, BotUser)
    \/ LinkUpsert(CallbackTask)
    \/ \E targetUserId \in AuthIds, role \in Roles :
          updateUserRole(targetUserId, role)

\* the order of the roles: user below communityAdmin below siteAdmin
RoleRank(role) ==
    IF role = "user" THEN 1 ELSE IF role = "communityAdmin" THEN 2 ELSE 3

\* the step of a guard that lets the message of task p pass
GuardPasses(p) ==
    /\ At(p, "/guarded", "handler")
    /\ handler'[p].reply = "next"

\* the step of a guard that answers the message of task p, passed or refused
GuardAnswers(p) ==
    /\ At(p, "/guarded", "handler")
    /\ handler'[p].pc = "save"

\* C30 (amended): hasRole and requireRole let pass exactly the linked users
\* whose role is in the given list, and the lists of the named guards
\* (requireAdmin, requireCommunityAdmin, requireAuth, isAdmin,
\* isCommunityAdmin) contain every role above a role they contain: when a user
\* of a lower role passes a named guard, a user of any higher role passes it.
C30_NamedGuardsRespectOrder ==
    [][\A p \in Procs : GuardAnswers(p) =>
          LET allowed == handler'[p].allowedRoles
              user == handler[p].session.user IN
          /\ GuardPasses(p) <=> \E u \in user : u.role \in allowed
          /\ GuardPasses(p) /\ allowed \in NamedRoleLists =>
                \A u \in user : \A higher \in Roles :
                    RoleRank(higher) > RoleRank(u.role) =>
                        /\ higher \in allowed
                        /\ hasRole({[u EXCEPT !.role = higher]}, allowed)]_vars

\* a community administrator has passed requireCommunityAdmin
C30_CommunityAdminPassed ==
    \E p \in Procs :
        /\ handler[p].kind = "/guarded" /\ handler[p].pc = "save"
        /\ handler[p].reply = "next"
        /\ handler[p].allowedRoles = requireCommunityAdmin
        /\ \E u \in handler[p].session.user : u.role = "communityAdmin"

\* C30: every check respects the order of the roles: when a guard made with a
\* list of roles lets a user pass, the same guard lets a user of every higher
\* role pass, that is, every higher role is in its list.
C30_HigherRolePassesToo ==
    [][\A p \in Procs : GuardPasses(p) =>
          \A u \in handler[p].session.user : \A higher \in Roles :
              RoleRank(higher) > RoleRank(u.role) =>
                  higher \in handler'[p].allowedRoles]_vars

-----------------------------------------------------------------------------
(* Claims about the text of the replies, checked under SpecSteps *)

\* C31: no reply to the user contains the text of an error: after every
\* handler the reply is a fixed message, with no message of a caught error
\* and no error of a collaborator's result put into it.
C31_NoErrorTextInReplies ==
    \A p \in Procs : handler[p].detail = ""

-----------------------------------------------------------------------------
(* validateEmail on texts of characters; claims checked under SpecEmail *)

\* the characters of the texts: a lower-case and an upper-case letter, the
\* dot, the at sign, the space and the double quote
TextChars == {"a", "B", ".", "@", " ", "\""}

\* the longest local part and free text of the inputs
MaxLocal == 3

\* sequences over a set of characters up to a length
SeqsUpTo(S, n) == UNION {[1..k -> S] : k \in 0..n}

\* 'a'.repeat(LongLead): a run of letters in front of a text
LongLead == 320

\* a text is a run of lead letters "a" followed by the characters of rest
Text(lead, rest) == [lead |-> lead, rest |-> rest]

DomainTexts ==
    {<<"a", ".", "a", "a">>, <<"a", ".", "a">>, <<"a", "a">>,
     <<"a", ".", "B", "a", " ">>, <<"a", ".", "a", "a", ".">>}

\* the inputs: short free texts, and local parts with an at sign and a domain,
\* each also behind a long run of letters
EmailInputs ==
    {Text(lead, rest) :
        lead \in {0, LongLead},
        rest \in SeqsUpTo(TextChars, MaxLocal) \cup
                 {l \o <<"@">> \o d : l \in SeqsUpTo(TextChars, MaxLocal),
                                      d \in DomainTexts}}

\* String.prototype.toLowerCase
RECURSIVE ToLowerCase(_)
ToLowerCase(s) ==
    IF s = <<>> THEN <<>>
    ELSE <<IF Head(s) = "B" THEN "b" ELSE Head(s)>> \o ToLowerCase(Tail(s))

RECURSIVE TrimStart(_)
TrimStart(s) ==
    IF s # <<>> /\ Head(s) = " " THEN TrimStart(Tail(s)) ELSE s

RECURSIVE TrimEnd(_)
TrimEnd(s) ==
    IF s # <<>> /\ s[Len(s)] = " " THEN TrimEnd(SubSeq(s, 1, Len(s) - 1))
    ELSE s

\* email.trim().toLowerCase()
TrimToLowerCase(email) ==
    Text(email.lead,
         ToLowerCase(IF email.lead = 0 THEN TrimStart(TrimEnd(email.rest))
                     ELSE TrimEnd(email.rest)))

\* trimmedEmail.length
Length(t) == t.lead + Len(t.rest)

\* the characters of a text at which an adjacent pair from S begins
HasPair(s, S) == \E i \in 1..(Len(s) - 1) : s[i] \in S /\ s[i + 1] \in S

\* str.split('@'): the positions of the at signs
AtSigns(s) == {i \in 1..Len(s) : s[i] = "@"}

\* the part of a text before its last at sign, and the part after it
UserPart(s) ==
    SubSeq(s, 1, (CHOOSE i \in AtSigns(s) : \A j \in AtSigns(s) : j <= i) - 1)
DomainPart(s) ==
    SubSeq(s, (CHOOSE i \in AtSigns(s) : \A j \in AtSigns(s) : j <= i) + 1,
           Len(s))

\* the labels of a dotted name are not empty: no dot at either end and no
\* two dots in a row
LabelsNotEmpty(s) ==
    /\ s # <<>>
    /\ s[1] # "." /\ s[Len(s)] # "."
    /\ ~HasPair(s, {"."})

Letters == {"a", "b", "B"}

\* isFQDN with require_tld: two labels or more of letters, the last of two
\* letters or more
isFQDN(domain) ==
    /\ LabelsNotEmpty(domain)
    /\ \A i \in 1..Len(domain) : domain[i] \in Letters \cup {"."}
    /\ \E i \in 1..Len(domain) : domain[i] = "."
    /\ Len(domain) >= 2
    /\ domain[Len(domain)] # "." /\ domain[Len(domain) - 1] # "."

MaxEmailLength == 254

\* validator.isEmail(str) with its default options: no more than 254
\* characters; the text after the last at sign is a domain name; the text
\* before it is either quoted, and then every character between its first
\* and last character is one allowed in a quoted string, or dot-separated
\* atoms of letters
validatorIsEmail(str) ==
    /\ Length(str) <= MaxEmailLength
    /\ str.lead = 0
    /\ AtSigns(str.rest) # {}
    /\ LET user == UserPart(str.rest)
           domain == DomainPart(str.rest) IN
       /\ isFQDN(domain)
       /\ IF user # <<>> /\ user[1] = "\""
          THEN \A i \in 2..(Len(user) - 1) : user[i] # "\""
          ELSE /\ LabelsNotEmpty(user)
               /\ \A i \in 1..Len(user) : user[i] \in Letters \cup {"."}

EmailTooLong == 320

NoNormalized == Text(0, <<"u", "n", "d", "e", "f", "i", "n", "e", "d">>)
NoError == "undefined"

Rejected(error) ==
    [isValid |-> FALSE, normalizedEmail |-> NoNormalized, error |-> error]

\* validateEmail(email) on a text; isEmailThrows is a validator that throws
validateEmailText(email, isEmailThrows) ==
    LET trimmedEmail == TrimToLowerCase(email) IN
    IF Length(trimmedEmail) = 0
    THEN Rejected("Email address is required")
    ELSE IF Length(trimmedEmail) > EmailTooLong
    THEN Rejected("Email address is too long (max 320 characters)")
    ELSE IF isEmailThrows
    THEN Rejected("Failed to validate email address")
    ELSE IF ~validatorIsEmail(trimmedEmail)
    THEN Rejected("Please enter a valid email address")
    ELSE IF HasPair(trimmedEmail.rest, {"."})
    THEN Rejected("Email address cannot contain consecutive dots")
    ELSE IF \/ trimmedEmail.lead = 0 /\ trimmedEmail.rest[1] = "."
            \/ trimmedEmail.rest # <<>>
                 /\ trimmedEmail.rest[Len(trimmedEmail.rest)] = "."
            \/ HasPair(trimmedEmail.rest, {"@"})
            \/ HasPair(trimmedEmail.rest, {".", "@"})
    THEN Rejected("Email address format is invalid")
    ELSE [isValid |-> TRUE, normalizedEmail |-> trimmedEmail,
          error |-> NoError]

NoValidation == [email |-> Text(0, <<>>), called |-> FALSE,
                 result |-> Rejected(NoError)]

InitUtil ==
    /\ validation = NoValidation
    /\ banned = {}
    /\ chain = [pc |-> "idle", runs |-> 0, consumed |-> 0,
                nextCalled |-> FALSE, inCatch |-> FALSE, thrown |-> FALSE]

\* the call of validateEmail on one text
validateEmailCall(email, isEmailThrows) ==
    /\ ~validation.called
    /\ validation' = [email |-> email, called |-> TRUE,
                      result |-> validateEmailText(email, isEmailThrows)]
    /\ UNCHANGED <<communityVars, identityVars, botVars, throttleVars, faults,
                   chain, banned>>

NextEmail ==
    \E email \in EmailInputs, isEmailThrows \in BOOLEAN :
        validateEmailCall(email, isEmailThrows)

\* the local part of a trimmed text: what stands before its first at sign
LocalPart(s) ==
    IF AtSigns(s) = {} THEN s
    ELSE SubSeq(s, 1, (CHOOSE i \in AtSigns(s) : \A j \in AtSigns(s) : i <= j) - 1)

\* the texts that the claim names as rejected
NamedAsRejected(t) ==
    \/ Length(t) = 0
    \/ Length(t) > EmailTooLong
    \/ HasPair(t.rest, {"."})
    \/ t.lead = 0 /\ LocalPart(t.rest) # <<>> /\ LocalPart(t.rest)[1] = "."
    \/ LocalPart(t.rest) # <<>>
         /\ LocalPart(t.rest)[Len(LocalPart(t.rest))] = "."
    \/ Cardinality(AtSigns(t.rest)) >= 2

\* C32: validateEmail answers either isValid with the trimmed, lower-cased
\* input as normalizedEmail and no error, or not isValid with an error and no
\* normalizedEmail; the empty text, a text longer than 320, two dots in a
\* row, a dot at either end of the local part and more than one at sign are
\* all rejected.
C32_ValidateEmailContract ==
    validation.called =>
        LET r == validation.result
            t == TrimToLowerCase(validation.email) IN
        /\ r.isValid =>
              r.normalizedEmail = t /\ r.error = NoError
        /\ ~r.isValid =>
              r.normalizedEmail = NoNormalized /\ r.error # NoError
        /\ NamedAsRejected(t) => ~r.isValid

-----------------------------------------------------------------------------
(* Claims about the session store under concurrent messages, checked under
   SpecLinkCommand *)

\* the step in which task p saves its session
SavesSession(p) ==
    /\ handler[p].pc = "save"
    /\ handler'[p].pc = "done"

-----------------------------------------------------------------------------
(* The pages of list over several communities; claims checked under
   SpecPages *)

SlugAbe == <<"a", "b", "e">>
SlugAbx == <<"a", "b", "x">>
PageSlugs == {SlugAbc, SlugAbe, SlugAbx}

PageOffsets == {0, 1, 2}
PageLimits == {1, 2}

\* public communities are created by one task while another task lists them
\* page by page, without requester and without search text
NextPages ==
    \/ \E slug \in PageSlugs : CreateStart("p1", "u1", slug, NameOk, FALSE)
    \/ CreateInsert("p1")
    \/ CreateAddMember("p1")
    \/ ListStart("p2", NoUser)
    \/ \E offset \in PageOffsets, limit \in PageLimits :
          ListQuery("p2", NoSearch, offset, limit)

\* the elements of a sequence
Range(seq) == {seq[i] : i \in 1..Len(seq)}

\* the rows of a sequence at the 0-based positions from to to, as far as the
\* sequence has them
Positions(seq, from, to) ==
    SubSeq(seq, from + 1, IF to + 1 < Len(seq) THEN to + 1 ELSE Len(seq))

\* C34: list with limit L and offset O returns at most L items, the visible
\* communities at the positions O to O+L-1 of the order; hasMore is true
\* exactly when the order has a community at position O+L or beyond; and the
\* page at offset O shares no item with the page at offset O+L.
C34_ListPages ==
    [][\A p \in Procs : ListReturns(p) =>
          LET visible == ListOrder(ListFilter(call[p].user, call[p].ids,
                                              NoSearch))
              O == call'[p].offset
              L == call'[p].limit IN
          /\ Len(call'[p].items) <= L
          /\ call'[p].items = Positions(visible, O, O + L - 1)
          /\ call'[p].hasMore <=> Len(visible) > O + L
          /\ Range(call'[p].items) \cap Range(ListRange(visible, O + L, L))
                = {}]_vars

-----------------------------------------------------------------------------
(* joinCommand; claims checked under SpecJoinCommand *)

\* /^[a-z0-9_-]+$/.test(slug)
JoinSlugOk(slug) ==
    /\ slug # <<>>
    /\ \A i \in 1..Len(slug) : slug[i] \in SlugChars

\* a step of joinCommand that changes the command and its service call
JoinCommandFrame ==
    /\ UNCHANGED <<communities, community_members, member_count, faults>>
    /\ UNCHANGED <<sessions, limiter, window, sent>>
    /\ UNCHANGED <<identityVars, throttleVars, utilVars>>

\* joinCommand(ctx, slug) of the session user uid, up to the answer of
\* getBySlug(slug, sessionUser.id): an invalid slug and a community that
\* getBySlug does not return end the command with a reply
joinCommand(p, uid, slug) ==
    /\ handler[p].pc = "done" /\ ~Running(p)
    /\ LET community == getBySlug(slug, uid)
           reply == IF ~JoinSlugOk(slug) THEN "Invalid Community Slug"
                    ELSE IF community = {} THEN "Community Not Found"
                    ELSE "" IN
       /\ handler' = [handler EXCEPT ![p] =
             [IdleHandler EXCEPT
                 !.kind = "/join", !.reply = reply,
                 !.pc = IF reply = "" THEN "isMember" ELSE "done"]]
       /\ call' = [call EXCEPT ![p] =
             [IdleCall EXCEPT !.op = "joinCommand", !.user = uid,
                              !.cid = slug]]
    /\ JoinCommandFrame

\* isMember(community.id, sessionUser.id): a member is told so, for anyone
\* else the loading message is sent
joinCommandIsMember(p) ==
    /\ handler[p].kind = "/join" /\ handler[p].pc = "isMember"
    /\ handler' = [handler EXCEPT
          ![p].pc = IF isMember(call[p].cid, call[p].user) THEN "done"
                    ELSE "join",
          ![p].reply = IF isMember(call[p].cid, call[p].user)
                       THEN "Already a Member" ELSE "Joining community..."]
    /\ UNCHANGED call
    /\ JoinCommandFrame

\* CommunityService.join(community.id, sessionUser.id) is called
joinCommandJoin(p) ==
    /\ handler[p].kind = "/join" /\ handler[p].pc = "join"
    /\ handler' = [handler EXCEPT ![p].pc = "joining"]
    /\ LET cid == call[p].cid
           uid == call[p].user IN
       call' = [call EXCEPT ![p] =
          [IdleCall EXCEPT
             !.op = "join", !.user = uid, !.cid = cid,
             !.priv = \E c \in CommunityById(cid) : c.is_private,
             !.rowAtStart = getMember(cid, uid) # {},
             !.pc = IF CommunityById(cid) = {} THEN "done" ELSE "getMember",
             !.result = IF CommunityById(cid) = {} THEN ErrNotFound ELSE ""]]
    /\ JoinCommandFrame

\* join has returned or thrown: the reply for its result
joinCommandReplied(p) ==
    /\ handler[p].kind = "/join" /\ handler[p].pc = "joining"
    /\ call[p].op = "join" /\ call[p].pc = "done"
    /\ handler' = [handler EXCEPT
          ![p].pc = "done",
          ![p].reply = IF call[p].result = "joined" THEN "Welcome"
                       ELSE IF call[p].result = "pending"
                       THEN "Join Request Submitted"
                       ELSE "Failed to Join Community"]
    /\ UNCHANGED call
    /\ JoinCommandFrame

\* one user creates communities and moderates, the users send join commands
NextJoinCommand ==
    \/ \E priv \in BOOLEAN : CreateStart("p1", "u1", SlugAbc, NameOk, priv)
    \/ CreateInsert("p1")
    \/ CreateAddMember("p1")
    \/ \E uid \in Users, slug \in SlugInputs : joinCommand("p2", uid, slug)
    \/ joinCommandIsMember("p2")
    \/ joinCommandJoin("p2")
    \/ JoinGetMember("p2")
    \/ JoinAddMember("p2")
    \/ joinCommandReplied("p2")
    \/ \E cid \in ValidSlugs, uid \in Users,
          status \in {"active", "pending", "banned"} :
          Moderate(cid, uid, status)

\* the step that ends a join command of task p
JoinCommandEnds(p) ==
    /\ handler'[p].kind = "/join"
    /\ handler'[p].pc = "done"
    /\ handler' # handler

\* joinCommand is issued for a private community that exists and in which
\* the user has no membership row
IssuedByStranger(p) ==
    /\ handler[p].pc = "done"
    /\ handler'[p].kind = "/join"
    /\ \E c \in CommunityBySlug(call'[p].cid) :
          c.is_private /\ getMember(c.id, call'[p].user) = {}

\* C35: joinCommand(slug) of an authenticated user without a membership in
\* the existing private community of that slug submits a join request: the
\* command goes on to join, and when it ends, after a join that found no row
\* in a private community, the pending row exists and the reply is 'Join
\* Request Submitted'.
C35_PrivateJoinIsRequested ==
    [][\A p \in Procs :
          /\ IssuedByStranger(p) => ~JoinCommandEnds(p)
          /\ /\ JoinCommandEnds(p) /\ call[p].op = "join"
             /\ call[p].priv /\ ~call[p].rowAtStart /\ ~call[p].faulted
             => /\ handler'[p].reply = "Join Request Submitted"
                /\ \E m \in getMember(call[p].cid, call[p].user) :
                      m.status = "pending"]_vars

-----------------------------------------------------------------------------
(* Claims about bans, checked under SpecBan *)

\* a moderator bans a member; the ban is remembered in banned
Ban(cid, uid) ==
    /\ ModerateRow(cid, uid, "banned")
    /\ banned' = banned \cup {[community_id |-> cid, user_id |-> uid]}
    /\ UNCHANGED <<identityVars, botVars, throttleVars, validation, chain>>

\* the service calls of the users with a moderator who only bans: nobody
\* lifts a ban
NextBan ==
    \/ \E priv \in BOOLEAN : CreateStart("p1", "u1", SlugAbc, NameOk, priv)
    \/ CreateInsert("p1")
    \/ CreateAddMember("p1")
    \/ \E p \in Procs, cid \in ValidSlugs, uid \in Users : JoinStart(p, cid, uid)
    \/ \E p \in Procs : JoinGetMember(p)
    \/ \E p \in Procs : JoinAddMember(p)
    \/ \E p \in Procs, cid \in ValidSlugs, uid \in Users : LeaveStart(p, cid, uid)
    \/ \E p \in Procs : LeaveGetCommunity(p)
    \/ \E p \in Procs : LeaveDelete(p)
    \/ \E cid \in ValidSlugs, uid \in Users : Ban(cid, uid)

HasStatus(cid, uid, S) == \E m \in getMember(cid, uid) : m.status \in S

\* C36: once the membership row of a user in a community is banned, no
\* sequence of join and leave calls gives the user an active or a pending
\* membership in that community.
C36_BanSurvivesLeaveAndJoin ==
    \A b \in banned :
        ~HasStatus(b.community_id, b.user_id, {"active", "pending"})

-----------------------------------------------------------------------------
(* Claims about the linking fields of the stored session, checked under
   SpecStatus *)

\* C37: in the stored session, whenever the step is unset (idle), linkingEmail
\* and linkingExpiry are unset too, whichever way the flow went back to idle.
C37_IdleSessionHasNoLinkingFields ==
    sessions.step = NoStep =>
        /\ sessions.linkingEmail = NoEmail
        /\ sessions.linkingExpiry = NoExpiry

-----------------------------------------------------------------------------
(* The middleware chain of one update: sessionMiddleware, authMiddleware,
   rateLimiterMiddleware and the handler; claims checked under SpecChain *)

IdleChain ==
    [pc |-> "idle", runs |-> 0, consumed |-> 0, nextCalled |-> FALSE,
     inCatch |-> FALSE, thrown |-> FALSE]

ChainFrame ==
    UNCHANGED <<communityVars, identityVars, botVars, faults, validation,
                banned>>

\* the next() that bot.use hands to a middleware: the composer of the
\* framework runs the rest of the chain on the first call and rejects any
\* further call ('next() called multiple times')
ComposerRejects(nextCalled) == nextCalled

\* sessionMiddleware up to its call of next(): sessionStore.get answers a
\* session, also when the store fails
handleUpdateSession ==
    /\ chain.pc = "idle"
    /\ chain' = [IdleChain EXCEPT !.pc = "next"]
    /\ UNCHANGED throttleVars
    /\ ChainFrame

\* await next() in the try block of sessionMiddleware
handleUpdateNext ==
    /\ chain.pc = "next"
    /\ chain' = [chain EXCEPT !.pc = "auth", !.nextCalled = TRUE,
                              !.runs = @ + 1]
    /\ UNCHANGED throttleVars
    /\ ChainFrame

\* authMiddleware and addRoleAssertion: they return next(), so that what is
\* thrown further down passes them
handleUpdateAuth ==
    /\ chain.pc = "auth"
    /\ chain' = [chain EXCEPT !.pc = "rateLimiter"]
    /\ UNCHANGED throttleVars
    /\ ChainFrame

\* where rateLimiterMiddleware leaves the update after a refusal: the reply
\* is sent and the middleware returns, or the reply throws
AfterRefusal(replyThrows) ==
    IF replyThrows THEN [chain EXCEPT !.thrown = TRUE,
                            !.pc = IF chain.inCatch THEN "botCatch"
                                   ELSE "sessionCatch"]
    ELSE [chain EXCEPT !.pc = "set"]

\* rateLimiterMiddleware: one point is consumed; the message goes on, or it
\* is refused with a reply
handleUpdateRateLimiter(replyThrows) ==
    /\ chain.pc = "rateLimiter"
    /\ LiveRecord.consumed < MessagePoints + MaxOver
    /\ throttle' = ConsumeMessagePoint
    /\ gate' = [outcome |-> IF ConsumeRejectsMessage
                            THEN MiddlewareOnCatch ELSE "next",
                fault |-> FALSE]
    /\ \A next \in {IF ConsumeRejectsMessage THEN AfterRefusal(replyThrows)
                    ELSE [chain EXCEPT !.pc = "handler"]} :
          chain' = [next EXCEPT !.consumed = @ + 1]
    /\ UNCHANGED now
    /\ ChainFrame

\* rateLimiterMiddleware when consume throws before it counted anything: the
\* message is refused with a reply
handleUpdateRateLimiterError(replyThrows) ==
    /\ chain.pc = "rateLimiter"
    /\ gate' = [outcome |-> MiddlewareOnCatch, fault |-> TRUE]
    /\ chain' = AfterRefusal(replyThrows)
    /\ UNCHANGED <<now, throttle>>
    /\ ChainFrame

\* the command and message handlers are wrapped in asyncErrorHandler and
\* errorHandler catches the failure of its own reply: they return
handleUpdateHandler ==
    /\ chain.pc = "handler"
    /\ chain' = [chain EXCEPT !.pc = IF chain.inCatch THEN "idle" ELSE "set"]
    /\ UNCHANGED throttleVars
    /\ ChainFrame

\* a catch block whose next() runs the rest of the chain again
handleUpdateSessionCatchRerun ==
    /\ chain.pc = "sessionCatch"
    /\ chain' = [chain EXCEPT !.pc = "auth", !.inCatch = TRUE, !.runs = @ + 1]
    /\ UNCHANGED throttleVars
    /\ ChainFrame

\* the catch block of sessionMiddleware: a fallback session, then next()
\* once more; what that call throws leaves sessionMiddleware
handleUpdateSessionCatch ==
    /\ chain.pc = "sessionCatch"
    /\ chain' = IF ComposerRejects(chain.nextCalled)
                THEN [chain EXCEPT !.pc = "botCatch", !.inCatch = TRUE]
                ELSE [chain EXCEPT !.pc = "auth", !.inCatch = TRUE,
                                   !.runs = @ + 1]
    /\ UNCHANGED throttleVars
    /\ ChainFrame

\* sessionStore.set after next() has returned
handleUpdateSessionSet ==
    /\ chain.pc = "set"
    /\ chain' = [chain EXCEPT !.pc = "idle"]
    /\ UNCHANGED throttleVars
    /\ ChainFrame

\* bot.catch(errorHandler): the reply 'Something went wrong!'
handleUpdateBotCatch ==
    /\ chain.pc = "botCatch"
    /\ chain' = [chain EXCEPT !.pc = "idle"]
    /\ UNCHANGED throttleVars
    /\ ChainFrame

\* the clock advances between two updates
ChainTimePasses(d) ==
    /\ chain.pc = "idle"
    /\ TimePasses(d)

NextChain ==
    \/ handleUpdateSession
    \/ handleUpdateNext
    \/ handleUpdateAuth
    \/ \E replyThrows \in BOOLEAN : handleUpdateRateLimiter(replyThrows)
    \/ \E replyThrows \in BOOLEAN : handleUpdateRateLimiterError(replyThrows)
    \/ handleUpdateHandler
    \/ handleUpdateSessionCatch
    \/ handleUpdateSessionSet
    \/ handleUpdateBotCatch
    \/ \E d \in TimeSteps : ChainTimePasses(d)

-----------------------------------------------------------------------------
(* Claims about the step of the stored session, checked under SpecSend *)

\* C39: the session that sessionMiddleware has saved at the end of a
\* message is idle, awaiting_email or awaiting_verification; sending_link is
\* never stored, also when a reply fails while the link is being sent.
C39_SendingLinkIsNotStored ==
    sessions.step \in {NoStep, "awaiting_email", "awaiting_verification"}

-----------------------------------------------------------------------------
(* Claims about the identity cached in the session, checked under SpecRoles *)

\* the step in which authMiddleware hands the session of a guarded message of
\* task p to the role guards
AuthHandsOn(p) ==
    /\ handler[p].kind = "/guarded"
    /\ handler[p].pc = "auth"
    /\ handler'[p].pc = "handler"

\* C40: the role that the guards of a message decide on is the role that the
\* identity store holds when authMiddleware handles that message; a role
\* cached in the session by an earlier message is not used once the store
\* holds a different role.
C40_GuardsUseStoredRole ==
    [][\A p \in Procs : AuthHandsOn(p) =>
          \A cached \in handler'[p].session.user :
              \E stored \in UserByTelegramId(BotUser) :
                  stored.role = cached.role]_vars

-----------------------------------------------------------------------------
(* Specifications *)

Init == InitCommunity /\ InitIdentity /\ InitBot /\ InitThrottle /\ InitUtil

SpecCommunity == Init /\ [][NextCommunity]_vars

SpecMembership == Init /\ [][NextMembership]_vars

SpecIdentity == Init /\ [][NextIdentity]_vars

SpecLink == Init /\ [][NextLink]_vars

SpecWizard == Init /\ [][NextWizard]_vars

SpecThrottle == Init /\ [][NextThrottle]_vars

SpecList == Init /\ [][NextList]_vars

SpecLinkCommand == Init /\ [][NextLinkCommand]_vars

SpecSend == Init /\ [][NextSend]_vars

SpecStatus == Init /\ [][NextStatus]_vars

SpecSteps == Init /\ [][NextSteps]_vars

SpecRoles == Init /\ [][NextRoles]_vars

SpecEmail == Init /\ [][NextEmail]_vars

SpecPages == Init /\ [][NextPages]_vars

SpecJoinCommand == Init /\ [][NextJoinCommand]_vars

SpecBan == Init /\ [][NextBan]_vars

SpecChain == Init /\ [][NextChain]_vars

====
